---- MODULE Spec2Model ----
(***************************************************************************)
(* A model of fusionner's merge-state engine (src/src/merger.rs) and of    *)
(* the refspec helper it uses (src/src/git.rs).                            *)
(*                                                                         *)
(* Object ids are numbers of OidHexLen hexadecimal digits; the notes keep  *)
(* them as hexadecimal strings (sequences of one-character strings) and    *)
(* parse them back.  Every other string is a sequence of tokens, where     *)
(* "/", "+", ":" and ";" are tokens of their own and a word holds none of  *)
(* them.  A stored note is the TOML table the note serialises to.          *)
(***************************************************************************)
EXTENDS Integers, Sequences, FiniteSets, TLC

(***************************************************************************)
(* Bounds of the model.                                                    *)
(***************************************************************************)
\* hexadecimal digits of an object id (40 in git)
OidHexLen == 3
\* merge commits the local object database may come to hold
MaxMerges == 2

(***************************************************************************)
(* Program constants.                                                      *)
(***************************************************************************)
DEFAULT_NOTES_NAMESPACE == "fusionner"
DEFAULT_NERGE_REFERENCE_BASE == <<"refs", "/", "fusionner">>
NOTE_VERSION == 1
NOTE_ID == "fusionner <https://github.com/lawliet89/fusionner>"
GIT_IDXENTRY_STAGEMASK == 12288
GIT_IDXENTRY_STAGESHIFT == 12

(***************************************************************************)
(* Object ids and their hexadecimal text.                                  *)
(***************************************************************************)
HexLower == <<"0", "1", "2", "3", "4", "5", "6", "7", "8", "9", "a", "b", "c", "d", "e", "f">>
HexUpper == <<"0", "1", "2", "3", "4", "5", "6", "7", "8", "9", "A", "B", "C", "D", "E", "F">>

\* the value of every hexadecimal digit, in either case
HexDigits ==
    [c \in {HexLower[i] : i \in 1..16} \cup {HexUpper[i] : i \in 1..16} |->
        (CHOOSE i \in 1..16 : HexLower[i] = c \/ HexUpper[i] = c) - 1]

IsHexChar(c) == c \in DOMAIN HexDigits

HexValue(c) == HexDigits[c]

RECURSIVE Pow16(_)
Pow16(n) == IF n = 0 THEN 1 ELSE 16 * Pow16(n - 1)

RECURSIVE FormatHex(_, _)
FormatHex(n, w) ==
    IF w = 0 THEN <<>> ELSE Append(FormatHex(n \div 16, w - 1), HexLower[(n % 16) + 1])

\* format!("{}", oid): the full-width lowercase hexadecimal text of an oid
format_oid(oid) == FormatHex(oid, OidHexLen)

RECURSIVE ParseHex(_)
ParseHex(s) ==
    IF Len(s) = 0 THEN 0
    ELSE 16 * ParseHex(SubSeq(s, 1, Len(s) - 1)) + HexValue(s[Len(s)])

\* the value Oid::from_str fails with
OidErr == -1

\* git2::Oid::from_str: fails on an empty string, on more than OidHexLen
\* characters and on a character that is no hexadecimal digit; a shorter
\* string is padded with zeros on the right; both letter cases are read.
Oid_from_str(s) ==
    IF Len(s) = 0 \/ Len(s) > OidHexLen \/ (\E i \in 1..Len(s) : ~IsHexChar(s[i]))
    THEN OidErr
    ELSE ParseHex(s) * Pow16(OidHexLen - Len(s))

(***************************************************************************)
(* Results of fallible operations.                                         *)
(***************************************************************************)
Ok(v) == [ok |-> TRUE, val |-> v]
Err(e) == [ok |-> FALSE, err |-> e]
None == [none |-> TRUE]

\* an Option<String>: Some(s), and None
Some(s) == <<s>>
None_str == <<>>

(***************************************************************************)
(* Strings, references and refspecs (src/src/git.rs).                      *)
(***************************************************************************)
\* the last position of token c in s, 0 when there is none
LastIndexOf(s, c) ==
    LET at == {i \in 1..Len(s) : s[i] = c}
    IN IF at = {} THEN 0 ELSE CHOOSE i \in at : \A j \in at : j <= i

\* the first position of token c in s, 0 when there is none
FirstIndexOf(s, c) ==
    LET at == {i \in 1..Len(s) : s[i] = c}
    IN IF at = {} THEN 0 ELSE CHOOSE i \in at : \A j \in at : i <= j

\* a from_str that strips every leading '+'
RefspecStr_from_str_all(refspec) ==
    LET leading == {i \in 1..Len(refspec) : \A j \in 1..i : refspec[j] = "+"}
    IN [force |-> leading # {},
        refspec |-> SubSeq(refspec, Cardinality(leading) + 1, Len(refspec))]

\* RefspecStr::from_str
RefspecStr_from_str(refspec) ==
    LET force == Len(refspec) > 0 /\ refspec[1] = "+"
    IN [force |-> force,
        refspec |-> IF force THEN SubSeq(refspec, 2, Len(refspec)) ELSE refspec]

\* RefspecStr::to_string
RefspecStr_to_string(r) == IF r.force THEN <<"+">> \o r.refspec ELSE r.refspec

\* a set_force that leaves the flag as it is
set_force_kept(r, force) == r

\* RefspecStr::set_force
set_force(r, force) == [r EXCEPT !.force = force]

\* RefspecStr::as_forced
as_forced(refspec) == RefspecStr_to_string(set_force(RefspecStr_from_str(refspec), TRUE))

\* RefspecStr::src
RefspecStr_src(r) ==
    LET index == FirstIndexOf(r.refspec, ":")
    IN IF index = 0 THEN r.refspec ELSE SubSeq(r.refspec, 1, index - 1)

\* RefspecStr::dest: None when the refspec has no ':'
RefspecStr_dest(r) ==
    LET index == FirstIndexOf(r.refspec, ":")
    IN IF index = 0 THEN <<>> ELSE <<SubSeq(r.refspec, index + 1, Len(r.refspec))>>

\* str::split('/')
RECURSIVE split(_)
split(s) ==
    LET index == FirstIndexOf(s, "/")
    IN IF index = 0 THEN <<s>>
       ELSE <<SubSeq(s, 1, index - 1)>> \o split(SubSeq(s, index + 1, Len(s)))

\* join("/")
RECURSIVE join(_)
join(parts) ==
    IF Len(parts) = 0 THEN <<>>
    ELSE IF Len(parts) = 1 THEN parts[1]
    ELSE parts[1] \o <<"/">> \o join(Tail(parts))

\* Remote::generate_refspec, of a remote whose name is name (<<>> when it
\* has none, <<n>> when it is n)
generate_refspec(name, src, force) ==
    LET parts == split(src)
    IN  IF parts[1] # <<"refs">>
        THEN Err("Invalid reference -- does not begin with refs/")
        ELSE IF name = <<>> THEN Err("Un-named remote")
        ELSE LET prepend == <<<<"refs">>, <<"remotes">>, name[1]>>
                 dest == join(prepend \o Tail(parts))
                 force_flag == IF force THEN <<"+">> ELSE <<>>
             IN  Ok(force_flag \o src \o <<":">> \o dest)

\* a refspec of a remote, with its direction
Refspec(direction, str) == [direction |-> direction, str |-> str]

\* Remote::find_matching_refspec: whether the refspecs hold one
find_matching_refspec(refspecs, direction, refspec) ==
    \E i \in 1..Len(refspecs) : refspecs[i] = Refspec(direction, refspec)

\* Remote::add_refspec of the loaded remote whose refspecs are loaded, to
\* the configuration: remote_add_fetch and remote_add_push add a value to
\* the configuration and leave the loaded remote as it is
add_refspec(loaded, configured, refspec, direction) ==
    IF ~find_matching_refspec(loaded, direction, refspec)
    THEN Append(configured, Refspec(direction, refspec))
    ELSE configured

(***************************************************************************)
(* The merge-reference namer (src/src/merger.rs).                          *)
(***************************************************************************)
\* a last item that is the whole reference
reference_last_item_whole(reference) == reference

\* MergeReferenceNamer::reference_last_item: reference.split('/').last()
reference_last_item(reference) ==
    SubSeq(reference, LastIndexOf(reference, "/") + 1, Len(reference))

\* the callback of tests::custom_merge_reference_namer_is_invoked
custom_namer_callback(reference, target_reference, oid, target_oid) ==
    reference \o <<";">> \o target_reference

\* MergeReferenceNamer::resolve
resolve(namer, reference, target_reference, oid, target_oid) ==
    IF namer = "Default"
    THEN DEFAULT_NERGE_REFERENCE_BASE \o <<"/">> \o reference_last_item(reference)
             \o <<"/">> \o reference_last_item(target_reference)
    ELSE custom_namer_callback(reference, target_reference, oid, target_oid)

\* Merger::notes_reference
notes_reference(namespace) == <<"refs", "/", "notes", "/", namespace>>

(***************************************************************************)
(* Notes and their merges (src/src/merger.rs).                             *)
(***************************************************************************)
\* Merge::new
Merge_new(merge_oid, target_parent_oid, target_parent_reference, parents, merge_reference) ==
    [merge_oid |-> format_oid(merge_oid),
     target_parent_oid |-> format_oid(target_parent_oid),
     target_parent_reference |-> target_parent_reference,
     parents_oid |-> [i \in 1..Len(parents) |-> format_oid(parents[i])],
     merge_reference |-> merge_reference]

\* Note::new
Note_new(merges) == [_note_origin |-> NOTE_ID, _version |-> NOTE_VERSION, merges |-> merges]

\* Note::new_with_merge
new_with_merge(merge) ==
    Note_new([k \in {merge.target_parent_reference} |-> merge])

\* an insertion that keeps the value the key already has
HashMap_insert_keep(map, key, value) ==
    [map |-> [k \in DOMAIN map \cup {key} |-> IF k \in DOMAIN map THEN map[k] ELSE value],
     old |-> IF key \in DOMAIN map THEN map[key] ELSE None]

\* an insertion that tells of no value replaced
HashMap_insert_silent(map, key, value) ==
    [map |-> [k \in DOMAIN map \cup {key} |-> IF k = key THEN value ELSE map[k]],
     old |-> None]

\* HashMap::insert: the map after the insertion and the value it replaced
HashMap_insert(map, key, value) ==
    [map |-> [k \in DOMAIN map \cup {key} |-> IF k = key THEN value ELSE map[k]],
     old |-> IF key \in DOMAIN map THEN map[key] ELSE None]

\* an append that starts the note afresh
append_with_merge_fresh(note, merge) ==
    [note |-> Note_new([k \in {merge.target_parent_reference} |-> merge]), ret |-> None]

\* Note::append_with_merge: the note after the call and the value returned
append_with_merge(note, merge) ==
    LET ins == HashMap_insert(note.merges, merge.target_parent_reference, merge)
    IN [note |-> [note EXCEPT !.merges = ins.map], ret |-> ins.old]

\* a search that takes a target oid that does not parse for a match
find_matching_merges_unparsed(note, target_oid) ==
    {k \in DOMAIN note.merges :
        LET oid == Oid_from_str(note.merges[k].target_parent_oid)
        IN IF oid = OidErr THEN TRUE ELSE oid = target_oid}

\* a search that compares the text of the oids
find_matching_merges_by_text(note, target_oid) ==
    {k \in DOMAIN note.merges : note.merges[k].target_parent_oid = format_oid(target_oid)}

\* a search that finds nothing
find_matching_merges_none(note, target_oid) == {}

\* Note::find_matching_merges: the keys of the matching entries
find_matching_merges(note, target_oid) ==
    {k \in DOMAIN note.merges :
        LET oid == Oid_from_str(note.merges[k].target_parent_oid)
        IN IF oid = OidErr THEN FALSE ELSE oid = target_oid}

(***************************************************************************)
(* The note codec (src/src/utils.rs).  The text of a note is modelled by   *)
(* the TOML table it denotes; a text that is no TOML at all by NotToml.    *)
(***************************************************************************)
NotToml == [not_toml |-> TRUE]

MergeFields == {"merge_oid", "target_parent_oid", "target_parent_reference",
                "parents_oid", "merge_reference"}
NoteFields == {"_note_origin", "_version", "merges"}

\* utils::serialize_toml of a Note
serialize_toml(note) ==
    [f \in NoteFields |->
        IF f = "merges"
        THEN [k \in DOMAIN note.merges |-> [g \in MergeFields |-> note.merges[k][g]]]
        ELSE note[f]]

\* utils::deserialize_toml to a Note: the derived decoder reads the fields
\* of the struct by name, fails when one is missing and skips the others
deserialize_toml(toml) ==
    IF toml = NotToml THEN Err("Error parsing TOML")
    ELSE IF ~(NoteFields \subseteq DOMAIN toml) THEN Err("ExpectedField")
    ELSE IF \E k \in DOMAIN toml.merges : ~(MergeFields \subseteq DOMAIN toml.merges[k])
    THEN Err("ExpectedField")
    ELSE Ok([_note_origin |-> toml._note_origin,
             _version |-> toml._version,
             merges |-> [k \in DOMAIN toml.merges |->
                            [g \in MergeFields |-> toml.merges[k][g]]]])

(***************************************************************************)
(* The commits of the repository.  The history the remote's heads are      *)
(* taken from: an initial commit, two commits of the target branch, two    *)
(* of a topic branch and a topic commit that conflicts with the target.    *)
(***************************************************************************)
OidInitial == 1
OidA == 161
OidA2 == 162
OidB == 177
OidB2 == 178
OidX == 193
\* an object id no repository holds
OidUnknown == 209

\* a tree: the blob of every path
EmptyTree == [p \in {} |-> 0]

BaseCommits ==
    [o \in {OidInitial, OidA, OidA2, OidB, OidB2, OidX} |->
        CASE o = OidInitial -> [parents |-> <<>>, tree |-> EmptyTree,
                                message |-> <<"initial">>, time |-> 0]
          [] o = OidA -> [parents |-> <<OidInitial>>, tree |-> [p \in {"a"} |-> 1],
                          message |-> <<"branch">>, time |-> 0]
          [] o = OidA2 -> [parents |-> <<OidA>>, tree |-> [p \in {"a"} |-> 2],
                           message |-> <<"branch">>, time |-> 0]
          [] o = OidB -> [parents |-> <<OidInitial>>, tree |-> [p \in {"b"} |-> 1],
                          message |-> <<"branch">>, time |-> 0]
          [] o = OidB2 -> [parents |-> <<OidB>>, tree |-> [p \in {"b"} |-> 2],
                           message |-> <<"branch">>, time |-> 0]
          [] o = OidX -> [parents |-> <<OidInitial>>, tree |-> [p \in {"a"} |-> 9],
                          message |-> <<"branch">>, time |-> 0]]

TopicOids == {OidB, OidB2}
TargetOids == {OidA, OidA2}

RefMaster == <<"refs", "/", "heads", "/", "master">>
RefMain == <<"refs", "/", "heads", "/", "main">>
RefFeature == <<"refs", "/", "heads", "/", "feature">>
RefBranch == <<"refs", "/", "heads", "/", "branch">>

TopicRefs == {RefFeature}
TargetRefs == {RefMaster, RefMain}

VARIABLES
    odb,                    \* the local object database: the commit of every oid
    refs,                   \* the local references: the oid of every reference
    notes,                  \* the local notes of refs/notes/<ns>: the text noted on an oid
    remote_refs,            \* the references of the remote
    remote_notes,           \* the notes of the remote's refs/notes/<ns>
    merge_reference_namer,  \* Merger.merge_reference_namer
    call,                   \* the last operation called and its arguments
    ret,                    \* what it returned
    heads,                  \* the heads the remote advertises: the oid of every head
    tick,                   \* where the loop driver is in its tick
    pushed,                 \* the refspecs of every Remote::push of the last operation
    config_refspecs,        \* the refspecs of the remote in the repository's configuration
    remote_refspecs,        \* the refspecs that the loaded Remote holds
    local_heads             \* the branches and remote-tracking references of the checkout

vars == <<odb, refs, notes, remote_refs, remote_notes, merge_reference_namer, call, ret,
          heads, tick, pushed, config_refspecs, remote_refspecs, local_heads>>

namespace == DEFAULT_NOTES_NAMESPACE

(***************************************************************************)
(* The object database and the in-memory merge (libgit2).                  *)
(***************************************************************************)
RECURSIVE Ancestors(_, _)
\* the commits reachable from o, o included, with their distance from o
Ancestors(db, o) ==
    {<<o, 0>>} \cup
    UNION {{<<a[1], a[2] + 1>> : a \in Ancestors(db, db[o].parents[i])} :
              i \in 1..Len(db[o].parents)}

\* git_merge_base: a common ancestor nearest to the first commit
merge_base(db, one, two) ==
    LET of_two == {b[1] : b \in Ancestors(db, two)}
        common == {a \in Ancestors(db, one) : a[1] \in of_two}
    IN (CHOOSE a \in common : \A b \in common : a[2] <= b[2])[1]

Blob(tree, path) == IF path \in DOMAIN tree THEN tree[path] ELSE 0

\* the flags of an index entry of the given stage
IndexEntryFlags(stage, path) == stage * 4096 + 1

\* Repository::merge_commits: the index of the three-way merge of the trees
\* of our_commit and their_commit against the tree of their merge base
merge_commits(db, our_commit, their_commit) ==
    LET base == db[merge_base(db, our_commit, their_commit)].tree
        ours == db[our_commit].tree
        theirs == db[their_commit].tree
        paths == DOMAIN base \cup DOMAIN ours \cup DOMAIN theirs
        entry(stage, path, id) == [path |-> path, flags |-> IndexEntryFlags(stage, path), id |-> id]
        resolved(path) ==
            IF Blob(ours, path) = Blob(theirs, path) THEN Blob(ours, path)
            ELSE IF Blob(ours, path) = Blob(base, path) THEN Blob(theirs, path)
            ELSE IF Blob(theirs, path) = Blob(base, path) THEN Blob(ours, path)
            ELSE -1
    IN UNION {IF resolved(path) = -1
              THEN {entry(1, path, Blob(base, path)), entry(2, path, Blob(ours, path)),
                    entry(3, path, Blob(theirs, path))} \ {entry(1, path, 0),
                    entry(2, path, 0), entry(3, path, 0)}
              ELSE {entry(0, path, resolved(path))} \ {entry(0, path, 0)} : path \in paths}

RECURSIVE BitAnd(_, _)
BitAnd(a, b) ==
    IF a = 0 \/ b = 0 THEN 0
    ELSE 2 * BitAnd(a \div 2, b \div 2) + (IF a % 2 = 1 /\ b % 2 = 1 THEN 1 ELSE 0)

ShiftRight(a, n) == a \div (2 ^ n)

\* git_index_entry_stage
git_index_entry_stage(entry) ==
    ShiftRight(BitAnd(entry.flags, GIT_IDXENTRY_STAGEMASK), GIT_IDXENTRY_STAGESHIFT)

\* git_index_entry_is_conflict
git_index_entry_is_conflict(entry) == git_index_entry_stage(entry) > 0

\* a check that finds no index in conflict
index_in_conflict_never(entries) == FALSE

\* index_in_conflict
index_in_conflict(entries) == \E entry \in entries : git_index_entry_is_conflict(entry)

\* Index::write_tree_to: the tree of the entries of the index
write_tree_to(entries) ==
    [p \in {e.path : e \in entries} |-> (CHOOSE e \in entries : e.path = p).id]

\* the references a commit message can name, and the place of a reference
\* and of a commit among them
AllRefs == <<RefMaster, RefMain, RefFeature, RefBranch>>
RefRank(reference) == (CHOOSE i \in 1..Len(AllRefs) : AllRefs[i] = reference) - 1
OidRank(oid) == Cardinality({o \in DOMAIN BaseCommits : o < oid})

\* the first of the ids of the merge commits
FirstMergeOid == 256

\* the id git gives a merge commit: a hash of its content, the same for the
\* same content whatever else the database holds and another for another
\* content.  The content of a merge commit is told by its two parents, the
\* two references its message names and its time
object_id(db, content) ==
    IF \E o \in DOMAIN db : db[o] = content
    THEN CHOOSE o \in DOMAIN db : db[o] = content
    ELSE LET message == content.message
             into == FirstIndexOf(message, "into")
             reference == SubSeq(message, 2, FirstIndexOf(message, "(") - 1)
             target_reference == SubSeq(message, into + 1, LastIndexOf(message, "(") - 1)
             commits == Cardinality(DOMAIN BaseCommits)
         IN  FirstMergeOid
             + ((((OidRank(content.parents[1]) * commits + OidRank(content.parents[2]))
                  * Len(AllRefs) + RefRank(reference))
                 * Len(AllRefs) + RefRank(target_reference))
                * (MaxMerges + 1)) + content.time

\* Signature::now, as far as it tells commits apart: the commits of db that
\* differ from the commit at most in their time were made in earlier
\* seconds, unless the last of them was made in this very second
Signature_now(db, commit, same_second) ==
    LET earlier == {o \in DOMAIN db : [db[o] EXCEPT !.time = 0] = commit}
    IN  IF same_second /\ earlier # {} THEN Cardinality(earlier) - 1
        ELSE Cardinality(earlier)

(***************************************************************************)
(* The remote (src/src/git.rs).                                            *)
(***************************************************************************)
\* Remote::fetch of refspecs that name no destination: what the remote
\* advertises under them is downloaded and no local reference is updated;
\* the transport may fail
Remote_fetch(refspecs, transport_ok) ==
    IF transport_ok THEN Ok(refspecs) ELSE Err("RemoteUnreachable")

\* Remote::push of forced refspecs that name no destination: every source is
\* written to the remote under its own name, the notes with it; the push
\* fails when the transport does or when a source is no local reference
Remote_push(refspecs, local_refs, local_notes, transport_ok) ==
    LET srcs == {RefspecStr_src(RefspecStr_from_str(refspecs[i])) : i \in 1..Len(refspecs)}
        merge_srcs == srcs \ {notes_reference(namespace)}
    IN  IF ~transport_ok THEN Err("RemoteUnreachable")
        ELSE IF \E src \in merge_srcs : src \notin DOMAIN local_refs THEN Err("NoSuchSource")
        ELSE IF notes_reference(namespace) \in srcs /\ DOMAIN local_notes = {}
        THEN Err("NoSuchSource")
        ELSE Ok([remote_refs |-> [r \in DOMAIN remote_refs \cup merge_srcs |->
                                     IF r \in merge_srcs THEN local_refs[r] ELSE remote_refs[r]],
                 remote_notes |-> IF notes_reference(namespace) \in srcs
                                  THEN local_notes ELSE remote_notes])

(***************************************************************************)
(* The merger (src/src/merger.rs).                                         *)
(***************************************************************************)
\* a search that reads the note of whatever commit has one
find_note_any(oid) ==
    IF DOMAIN notes = {} THEN Err("NoteMissing")
    ELSE deserialize_toml(notes[CHOOSE o \in DOMAIN notes : TRUE])

\* Merger::find_note
find_note(oid) ==
    IF oid \notin DOMAIN notes THEN Err("NoteMissing") ELSE deserialize_toml(notes[oid])

\* an add_note that writes nothing
add_note_dropped(note, oid) == notes

\* an add_note that leaves the note it writes the only one
add_note_only(note, oid) == [o \in {oid} |-> serialize_toml(note)]

\* an add_note that leaves the note that an oid has
add_note_unforced(note, oid) ==
    [o \in DOMAIN notes \cup {oid} |-> IF o \in DOMAIN notes THEN notes[o] ELSE serialize_toml(note)]

\* Merger::add_note: the notes after the call
add_note(note, oid) ==
    [o \in DOMAIN notes \cup {oid} |-> IF o = oid THEN serialize_toml(note) ELSE notes[o]]

\* the outcome of a call that panics
Panic == [ok |-> FALSE, err |-> "panic"]

\* Merger::should_merge: the results the call can have, one for every entry
\* that matching_merges.values().take(1) can yield
should_merge(oid, target_oid, reference, target_reference) ==
    LET note == find_note(oid)
    IN  IF ~note.ok THEN {[variant |-> "Merge", note |-> None]}
        ELSE LET matching_merges == find_matching_merges(note.val, target_oid)
             IN  IF matching_merges = {} THEN {[variant |-> "Merge", note |-> note.val]}
                 ELSE IF target_reference \notin matching_merges
                 THEN {LET commit_reference == resolve(merge_reference_namer, reference,
                                                       target_reference, oid, target_oid)
                           merge_oid == Oid_from_str(note.val.merges[first].merge_oid)
                       IN  IF merge_oid = OidErr THEN Panic
                           ELSE [variant |-> "ExistingMergeInDifferentTargetReference",
                                 note |-> note.val,
                                 merges |-> {note.val.merges[k] : k \in matching_merges},
                                 proposed_merge |-> Merge_new(merge_oid, target_oid,
                                                              target_reference, <<oid>>,
                                                              commit_reference)]
                         : first \in matching_merges}
                 ELSE {[variant |-> "ExistingMergeInSameTargetReference", note |-> note.val]}

\* Merger::merge_commit_message
merge_commit_message(base_oid, target_oid, reference, target_reference) ==
    <<"Merge">> \o reference \o <<"(">> \o format_oid(base_oid) \o <<")", "into">>
        \o target_reference \o <<"(">> \o format_oid(target_oid) \o <<")">>

\* a merge whose commit has the topic commit for its first parent
merge_topic_first(oid, target_oid, reference, target_reference, same_second) ==
    IF target_oid \notin DOMAIN odb \/ oid \notin DOMAIN odb THEN Err("CommitLookup")
    ELSE LET merged_index == merge_commits(odb, target_oid, oid)
         IN  IF index_in_conflict(merged_index)
             THEN Err("Index is in conflict after merge -- skipping")
             ELSE LET commit_reference == resolve(merge_reference_namer, reference,
                                                  target_reference, oid, target_oid)
                      unsigned == [parents |-> <<oid, target_oid>>,
                                   tree |-> write_tree_to(merged_index),
                                   message |-> merge_commit_message(oid, target_oid, reference,
                                                                    target_reference),
                                   time |-> 0]
                      commit == [unsigned EXCEPT
                                     !.time = Signature_now(odb, unsigned, same_second)]
                      merge_oid == object_id(odb, commit)
                  IN  [ok |-> TRUE,
                       val |-> Merge_new(merge_oid, target_oid, target_reference, <<oid>>,
                                         commit_reference),
                       odb |-> [o \in DOMAIN odb \cup {merge_oid} |->
                                   IF o = merge_oid THEN commit ELSE odb[o]],
                       refs |-> [r \in DOMAIN refs \cup {commit_reference} |->
                                    IF r = commit_reference THEN merge_oid ELSE refs[r]]]

\* a merge that leaves a reference that exists where it points
merge_unforced(oid, target_oid, reference, target_reference, same_second) ==
    IF target_oid \notin DOMAIN odb \/ oid \notin DOMAIN odb THEN Err("CommitLookup")
    ELSE LET merged_index == merge_commits(odb, target_oid, oid)
         IN  IF index_in_conflict(merged_index)
             THEN Err("Index is in conflict after merge -- skipping")
             ELSE LET commit_reference == resolve(merge_reference_namer, reference,
                                                  target_reference, oid, target_oid)
                      unsigned == [parents |-> <<target_oid, oid>>,
                                   tree |-> write_tree_to(merged_index),
                                   message |-> merge_commit_message(oid, target_oid, reference,
                                                                    target_reference),
                                   time |-> 0]
                      commit == [unsigned EXCEPT
                                     !.time = Signature_now(odb, unsigned, same_second)]
                      merge_oid == object_id(odb, commit)
                  IN  [ok |-> TRUE,
                       val |-> Merge_new(merge_oid, target_oid, target_reference, <<oid>>,
                                         commit_reference),
                       odb |-> [o \in DOMAIN odb \cup {merge_oid} |->
                                   IF o = merge_oid THEN commit ELSE odb[o]],
                       refs |-> [r \in DOMAIN refs \cup {commit_reference} |->
                                    IF r \in DOMAIN refs THEN refs[r] ELSE merge_oid]]

\* Merger::merge: the Merge returned, with the object database and the
\* references after the call; same_second tells whether the clock still
\* shows the second of the last commit of the same merge
merge(oid, target_oid, reference, target_reference, same_second) ==
    IF target_oid \notin DOMAIN odb \/ oid \notin DOMAIN odb THEN Err("CommitLookup")
    ELSE LET merged_index == merge_commits(odb, target_oid, oid)
         IN  IF index_in_conflict(merged_index)
             THEN Err("Index is in conflict after merge -- skipping")
             ELSE LET tree == write_tree_to(merged_index)
                      commit_reference == resolve(merge_reference_namer, reference,
                                                  target_reference, oid, target_oid)
                      unsigned == [parents |-> <<target_oid, oid>>,
                                   tree |-> tree,
                                   message |-> merge_commit_message(oid, target_oid, reference,
                                                                    target_reference),
                                   time |-> 0]
                      commit == [unsigned EXCEPT
                                     !.time = Signature_now(odb, unsigned, same_second)]
                      merge_oid == object_id(odb, commit)
                  IN  [ok |-> TRUE,
                       val |-> Merge_new(merge_oid, target_oid, target_reference, <<oid>>,
                                         commit_reference),
                       odb |-> [o \in DOMAIN odb \cup {merge_oid} |->
                                   IF o = merge_oid THEN commit ELSE odb[o]],
                       refs |-> [r \in DOMAIN refs \cup {commit_reference} |->
                                    IF r = commit_reference THEN merge_oid ELSE refs[r]]]

\* the state a call leaves, with what it returns
Outcome(result, db, rf, nt, rrefs, rnotes) ==
    [ret |-> result, odb |-> db, refs |-> rf, notes |-> nt,
     remote_refs |-> rrefs, remote_notes |-> rnotes]

\* the outcome of a call that has called Remote::push with the refspecs
Pushing(out, refspecs) ==
    [f \in DOMAIN out \cup {"pushed"} |-> IF f = "pushed" THEN <<refspecs>> ELSE out[f]]

\* a check_and_merge that pushes whether or not it is asked to
check_and_merge_push_always(merged, sm, push_reference, push, push_ok, db, rf, nt) ==
    LET refspecs == [i \in 1..Len(push_reference) |-> as_forced(push_reference[i])]
        result == Remote_push(refspecs, rf, nt, push_ok)
    IN  IF ~result.ok
        THEN Pushing(Outcome(result, db, rf, nt, remote_refs, remote_notes), refspecs)
        ELSE Pushing(Outcome(Ok(<<merged, sm>>), db, rf, nt,
                             result.val.remote_refs, result.val.remote_notes), refspecs)

\* the push that ends Merger::check_and_merge
check_and_merge_push(merged, sm, push_reference, push, push_ok, db, rf, nt) ==
    IF ~push THEN Outcome(Ok(<<merged, sm>>), db, rf, nt, remote_refs, remote_notes)
    ELSE LET refspecs == [i \in 1..Len(push_reference) |-> as_forced(push_reference[i])]
             result == Remote_push(refspecs, rf, nt, push_ok)
         IN  IF ~result.ok
             THEN Pushing(Outcome(result, db, rf, nt, remote_refs, remote_notes), refspecs)
             ELSE Pushing(Outcome(Ok(<<merged, sm>>), db, rf, nt,
                                  result.val.remote_refs, result.val.remote_notes), refspecs)

\* a check_and_merge that merges again where a merge is recorded already
check_and_merge_remerge(oid, target_oid, reference, target_ref, push, sm, same_second, fetch_ok, push_ok) ==
    LET merged == merge(oid, target_oid, reference, target_ref, same_second)
    IN  IF sm = Panic \/ ~merged.ok
        THEN Outcome(IF sm = Panic THEN Panic ELSE merged, odb, refs, notes,
                     remote_refs, remote_notes)
        ELSE check_and_merge_push(merged.val, sm,
                                  <<notes_reference(namespace), merged.val.merge_reference>>,
                                  push, push_ok, merged.odb, merged.refs,
                                  add_note(IF sm.note = None THEN new_with_merge(merged.val)
                                           ELSE append_with_merge(sm.note, merged.val).note,
                                           oid))

\* Merger::check_and_merge, for the result sm of should_merge, the second of
\* the call and the fate of the transport in its fetch and in its push
check_and_merge(oid, target_oid, reference, target_ref, push, sm, same_second, fetch_ok, push_ok) ==
    LET unchanged(result) == Outcome(result, odb, refs, notes, remote_refs, remote_notes)
        push_reference == <<notes_reference(namespace)>>
    IN  IF sm = Panic THEN unchanged(Panic)
        ELSE IF sm.variant = "Merge"
        THEN LET merged == merge(oid, target_oid, reference, target_ref, same_second)
             IN  IF ~merged.ok THEN unchanged(merged)
                 ELSE LET note == IF sm.note = None THEN new_with_merge(merged.val)
                                  ELSE append_with_merge(sm.note, merged.val).note
                      IN  check_and_merge_push(merged.val, sm,
                                               Append(push_reference, merged.val.merge_reference),
                                               push, push_ok,
                                               merged.odb, merged.refs, add_note(note, oid))
        ELSE IF sm.variant = "ExistingMergeInSameTargetReference"
        THEN LET existing == sm.note.merges[target_ref]
                 fetched == Remote_fetch(<<as_forced(existing.merge_reference)>>, fetch_ok)
             IN  IF ~fetched.ok THEN unchanged(fetched)
                 ELSE check_and_merge_push(existing, sm, push_reference, push, push_ok,
                                           odb, refs, notes)
        ELSE LET note == append_with_merge(sm.note, sm.proposed_merge).note
                 fetched == Remote_fetch(<<as_forced(sm.proposed_merge.merge_reference)>>,
                                         fetch_ok)
             IN  IF ~fetched.ok
                 THEN Outcome(fetched, odb, refs, add_note(note, oid), remote_refs, remote_notes)
                 ELSE check_and_merge_push(sm.proposed_merge, sm, push_reference, push,
                                           push_ok, odb, refs, add_note(note, oid))

(***************************************************************************)
(* The notes a caller of add_note writes, in the manner of the tests'      *)
(* make_note.                                                              *)
(***************************************************************************)
Upper(s) == [i \in 1..Len(s) |->
                IF \E j \in 1..16 : HexLower[j] = s[i]
                THEN HexUpper[CHOOSE j \in 1..16 : HexLower[j] = s[i]] ELSE s[i]]

RefSomeMerge == <<"refs", "/", "fusionner", "/", "some-merge">>

\* tests::make_merge
make_merge(oid, target_oid, target_reference) ==
    Merge_new(oid, target_oid, target_reference, <<>>, RefSomeMerge)

\* tests::make_note
make_note(oid, target_oid, target_reference) ==
    new_with_merge(make_merge(oid, target_oid, target_reference))

NoteInputs ==
    {make_note(OidB, OidA, RefMaster),
     \* the target oid in capital letters
     new_with_merge([make_merge(OidB, OidA, RefMain) EXCEPT
                         !.target_parent_oid = Upper(format_oid(OidA))]),
     \* a merge oid that is no oid
     new_with_merge([make_merge(OidB, OidA, RefMaster) EXCEPT !.merge_oid = <<"z">>]),
     \* a target oid that is no oid
     new_with_merge([make_merge(OidB, OidA, RefMaster) EXCEPT !.target_parent_oid = <<"z">>]),
     \* the same target oid under two target references, with two merge oids
     Note_new([k \in {RefMaster, RefMain} |->
                  make_merge(IF k = RefMaster THEN OidB ELSE OidB2, OidA2, k)])}

\* the note the tests make of the Merge that merge has just returned
MergeNotes == IF call.op = "merge" /\ ret.ok THEN {new_with_merge(ret.val)} ELSE {}

Empty == [x \in {} |-> 0]

MergeCount(db) == Cardinality(DOMAIN db) - Cardinality(DOMAIN BaseCommits)

(***************************************************************************)
(* The loop driver's configuration and the remote's heads.                 *)
(***************************************************************************)
\* the references the driver watches and the target reference it resolved
watch_refs == {RefFeature, RefBranch}
config_target_ref == RefMaster

\* the oids a head can be pushed to
HeadOids(head) == IF head = config_target_ref THEN TargetOids ELSE TopicOids

\* the refspec that a clone configures for its remote
ClonedRefspecs ==
    <<Refspec("Fetch", <<"+", "refs", "/", "heads", "/", "*", ":",
                         "refs", "/", "remotes", "/", "origin", "/", "*">>)>>

\* the name under which a fetch writes the head `name` of the remote for one
\* refspec of the loaded remote: None when the refspec does not match it
refspec_transform(refspec, name) ==
    LET r == RefspecStr_from_str(refspec.str)
        src == RefspecStr_src(r)
        dest == RefspecStr_dest(r)
        stem == SubSeq(src, 1, Len(src) - 1)
    IN  IF dest = None_str THEN None_str
        ELSE IF src = name THEN dest
        ELSE IF /\ Len(src) > 0
                /\ src[Len(src)] = "*"
                /\ Len(name) >= Len(stem)
                /\ SubSeq(name, 1, Len(stem)) = stem
        THEN Some(SubSeq(dest[1], 1, Len(dest[1]) - 1) \o SubSeq(name, Len(stem) + 1, Len(name)))
        ELSE None_str

\* Remote::fetch of names that carry no destination: the heads fetched are
\* written where the fetch refspecs of the loaded remote map them, and a
\* local reference that no refspec maps a head to stays as it is
update_tips(local, loaded, remote_ls, names) ==
    LET matches == {p \in (1..Len(loaded)) \X (names \cap DOMAIN remote_ls) :
                       /\ loaded[p[1]].direction = "Fetch"
                       /\ refspec_transform(loaded[p[1]], p[2]) # None_str}
        tips == {<<refspec_transform(loaded[p[1]], p[2])[1], remote_ls[p[2]]>> : p \in matches}
        dests == {t[1] : t \in tips}
    IN  [d \in DOMAIN local \cup dests |->
            IF d \in dests THEN (CHOOSE t \in tips : t[1] = d)[2] ELSE local[d]]

\* the heads that the remote advertises when the repository is cloned
ClonedAdvertisement ==
    [h \in watch_refs \cup {config_target_ref} |->
        IF h = config_target_ref THEN OidA ELSE OidB]

\* Repository::clone: the branch of the remote's HEAD, and the heads of the
\* remote under refs/remotes/origin
ClonedHeads ==
    update_tips([h \in {config_target_ref} |-> ClonedAdvertisement[h]], ClonedRefspecs,
                ClonedAdvertisement, DOMAIN ClonedAdvertisement)

Init ==
    /\ odb = BaseCommits
    /\ refs = Empty
    /\ notes = Empty
    /\ remote_refs = Empty
    /\ remote_notes = Empty
    /\ merge_reference_namer = "Default"
    /\ call = [op |-> "new"]
    /\ ret = Ok(None)
    /\ heads = ClonedAdvertisement
    /\ tick = [pc |-> "ready"]
    /\ pushed = <<>>
    /\ config_refspecs = ClonedRefspecs
    /\ remote_refspecs = ClonedRefspecs
    /\ local_heads = ClonedHeads

\* the state after a call of the merger
Leave(out) ==
    /\ MergeCount(out.odb) <= MaxMerges
    /\ odb' = out.odb
    /\ refs' = out.refs
    /\ notes' = out.notes
    /\ remote_refs' = out.remote_refs
    /\ remote_notes' = out.remote_notes
    /\ ret' = out.ret
    /\ pushed' = IF "pushed" \in DOMAIN out THEN out.pushed ELSE <<>>
    /\ UNCHANGED <<merge_reference_namer, local_heads, config_refspecs, remote_refspecs>>

AddNote(note, oid) ==
    /\ call' = [op |-> "add_note", oid |-> oid, note |-> note]
    /\ Leave(Outcome(Ok(None), odb, refs, add_note(note, oid), remote_refs, remote_notes))
    /\ UNCHANGED <<heads, tick>>

FindNote(oid) ==
    /\ call' = [op |-> "find_note", oid |-> oid]
    /\ Leave(Outcome(find_note(oid), odb, refs, notes, remote_refs, remote_notes))
    /\ UNCHANGED <<heads, tick>>

\* a should_merge that removes the note it has read
ShouldMerge_consuming(oid, target_oid, reference, target_reference) ==
    /\ call' = [op |-> "should_merge", oid |-> oid, target_oid |-> target_oid,
                reference |-> reference, target_reference |-> target_reference]
    /\ \E sm \in should_merge(oid, target_oid, reference, target_reference) :
          Leave(Outcome(sm, odb, refs, [o \in DOMAIN notes \ {oid} |-> notes[o]],
                        remote_refs, remote_notes))
    /\ UNCHANGED <<heads, tick>>

ShouldMerge(oid, target_oid, reference, target_reference) ==
    /\ call' = [op |-> "should_merge", oid |-> oid, target_oid |-> target_oid,
                reference |-> reference, target_reference |-> target_reference]
    /\ \E sm \in should_merge(oid, target_oid, reference, target_reference) :
          Leave(Outcome(sm, odb, refs, notes, remote_refs, remote_notes))
    /\ UNCHANGED <<heads, tick>>

\* whether the clock can still show the second of an earlier merge of the
\* two commits
SameSecond(oid, target_oid) ==
    IF \E o \in DOMAIN odb : odb[o].parents = <<target_oid, oid>> THEN BOOLEAN ELSE {FALSE}

MergeOp(oid, target_oid, reference, target_reference) ==
    /\ call' = [op |-> "merge", oid |-> oid, target_oid |-> target_oid,
                reference |-> reference, target_reference |-> target_reference]
    /\ \E same_second \in SameSecond(oid, target_oid) :
       \E merged \in {merge(oid, target_oid, reference, target_reference, same_second)} :
           IF merged.ok
           THEN Leave(Outcome(Ok(merged.val), merged.odb, merged.refs, notes,
                              remote_refs, remote_notes))
           ELSE Leave(Outcome(merged, odb, refs, notes, remote_refs, remote_notes))
    /\ UNCHANGED <<heads, tick>>

\* a call of check_and_merge, whoever makes it
CheckAndMergeCall(oid, target_oid, reference, target_ref, push) ==
    /\ call' = [op |-> "check_and_merge", oid |-> oid, target_oid |-> target_oid,
                reference |-> reference, target_reference |-> target_ref, push |-> push]
    /\ \E sm \in should_merge(oid, target_oid, reference, target_ref) :
       \E same_second \in IF sm # Panic /\ sm.variant = "Merge" THEN SameSecond(oid, target_oid)
                             ELSE {FALSE},
          fetch_ok \in IF sm # Panic /\ sm.variant # "Merge" THEN BOOLEAN ELSE {TRUE},
          push_ok \in IF push THEN BOOLEAN ELSE {TRUE} :
          Leave(check_and_merge(oid, target_oid, reference, target_ref, push, sm,
                                same_second, fetch_ok, push_ok))

CheckAndMerge(oid, target_oid, reference, target_ref, push) ==
    /\ CheckAndMergeCall(oid, target_oid, reference, target_ref, push)
    /\ UNCHANGED <<heads, tick>>

(***************************************************************************)
(* The merger as a library: merge, add_note of the note of the merge and   *)
(* check_and_merge, called in any order on any of the commits, the way     *)
(* the tests call them.  Every note is one the merger wrote.               *)
(***************************************************************************)
Next ==
    \/ \E note \in MergeNotes : AddNote(note, call.oid)
    \/ \E oid \in TopicOids \cup {OidX}, target_oid \in TargetOids,
          reference \in TopicRefs, target_reference \in TargetRefs :
          MergeOp(oid, target_oid, reference, target_reference)
    \/ \E oid \in TopicOids, target_oid \in TargetOids,
          reference \in TopicRefs, target_reference \in TargetRefs :
          CheckAndMerge(oid, target_oid, reference, target_reference, FALSE)

Spec == Init /\ [][Next]_vars

(***************************************************************************)
(* The queries of the merger on the notes a caller or a peer wrote.        *)
(***************************************************************************)
NextQuery ==
    \/ \E note \in NoteInputs, oid \in TopicOids : AddNote(note, oid)
    \/ \E oid \in TopicOids : FindNote(oid)
    \/ \E oid \in TopicOids, target_oid \in TargetOids,
          reference \in TopicRefs, target_reference \in TargetRefs :
          ShouldMerge(oid, target_oid, reference, target_reference)

SpecQuery == Init /\ [][NextQuery]_vars

(***************************************************************************)
(* Note::append_with_merge, applied to the notes and the merges that the   *)
(* tests make and to the notes it has made itself.                         *)
(***************************************************************************)
MergeInputs ==
    {make_merge(oid, target_oid, target_reference) :
        oid \in TopicOids, target_oid \in TargetOids, target_reference \in TargetRefs}

AppendWithMerge(note, merge_input) ==
    /\ call' = [op |-> "append_with_merge", note |-> note, merge |-> merge_input]
    /\ Leave(Outcome(append_with_merge(note, merge_input), odb, refs, notes,
                     remote_refs, remote_notes))
    /\ UNCHANGED <<heads, tick>>

NextNote ==
    \E note \in NoteInputs \cup {Note_new(Empty)}
                 \cup (IF call.op = "append_with_merge" THEN {ret.note} ELSE {}),
       merge_input \in MergeInputs :
       AppendWithMerge(note, merge_input)

SpecNote == Init /\ [][NextNote]_vars

(***************************************************************************)
(* check_and_merge with its push, on a topic commit and on the commit that *)
(* conflicts with the target, and merge on the latter.                     *)
(***************************************************************************)
NextPush ==
    \/ \E oid \in {OidB, OidX}, target_oid \in TargetOids,
          reference \in TopicRefs, target_reference \in TargetRefs :
          CheckAndMerge(oid, target_oid, reference, target_reference, TRUE)
    \/ \E target_oid \in TargetOids, reference \in TopicRefs :
          MergeOp(OidX, target_oid, reference, config_target_ref)

SpecPush == Init /\ [][NextPush]_vars

(***************************************************************************)
(* MergeReferenceNamer::resolve, applied by either namer to references of  *)
(* every shape: with and without a slash, ending in one, empty.            *)
(***************************************************************************)
ReferenceInputs ==
    {RefFeature, RefBranch, RefMaster,
     <<"refs", "/", "pull", "/", "feature">>,
     <<"refs", "/", "heads", "/", "topic", "/", "feature">>,
     <<"feature">>,
     <<"refs", "/", "heads", "/">>,
     <<>>}

Resolve(namer, reference, target_reference, oid, target_oid) ==
    /\ call' = [op |-> "resolve", namer |-> namer, reference |-> reference,
                target_reference |-> target_reference, oid |-> oid, target_oid |-> target_oid]
    /\ Leave(Outcome(resolve(namer, reference, target_reference, oid, target_oid),
                     odb, refs, notes, remote_refs, remote_notes))
    /\ UNCHANGED <<heads, tick>>

NextNamer ==
    \E namer \in {"Default", "Custom"}, reference \in ReferenceInputs,
       target_reference \in ReferenceInputs, oid \in TopicOids, target_oid \in TargetOids :
       Resolve(namer, reference, target_reference, oid, target_oid)

SpecNamer == Init /\ [][NextNamer]_vars

(***************************************************************************)
(* check_and_merge on commits whose note a peer has written badly: a text  *)
(* that is no TOML, or a table that lacks a field of the Note.             *)
(***************************************************************************)
BadTexts ==
    {NotToml, [f \in {"_note_origin", "_version"} |-> serialize_toml(Note_new(Empty))[f]]}

\* a peer's note on the oid, as fetch_notes brings it to the local mirror
PeerNote(oid, text) ==
    /\ call' = [op |-> "peer_note", oid |-> oid]
    /\ Leave(Outcome(Ok(None), odb, refs,
                     [o \in DOMAIN notes \cup {oid} |-> IF o = oid THEN text ELSE notes[o]],
                     remote_refs, remote_notes))
    /\ UNCHANGED <<heads, tick>>

NextPeer ==
    \/ \E oid \in {OidB, OidX}, text \in BadTexts : PeerNote(oid, text)
    \/ \E oid \in {OidB, OidX}, target_oid \in TargetOids, reference \in TopicRefs :
          CheckAndMerge(oid, target_oid, reference, config_target_ref, FALSE)

SpecPeer == Init /\ [][NextPeer]_vars

(***************************************************************************)
(* The calls of check_and_merge that succeed: no conflict, and the         *)
(* transport carries every fetch and every push.                           *)
(***************************************************************************)
CheckAndMergeOk(oid, target_oid, reference, target_ref, push) ==
    /\ CheckAndMerge(oid, target_oid, reference, target_ref, push)
    /\ ret'.ok

NextOk ==
    \E oid \in TopicOids, target_oid \in TargetOids,
       reference \in TopicRefs, target_reference \in TargetRefs, push \in BOOLEAN :
       CheckAndMergeOk(oid, target_oid, reference, target_reference, push)

SpecOk == Init /\ [][NextOk]_vars

(***************************************************************************)
(* The loop driver (src/src/main.rs, process and process_loop): a tick     *)
(* lists the remote's heads, fetches them and the notes, and hands every   *)
(* watched head to check_and_merge, which pushes; then the driver sleeps.  *)
(* Developers push to the heads of the remote meanwhile; the driver reads  *)
(* the heads at the start of a tick only.                                  *)
(***************************************************************************)
\* main::resolve_watch_refs, for a watch list of exact names
resolve_watch_refs(remote_ls) == {r \in watch_refs : r \in DOMAIN remote_ls}

\* process_loop up to its loop over the watched heads, in a checkout whose
\* references of the names fetched hold what the remote advertised, so that
\* the oids read are the oids listed (ProcessLoopResolve reads the checkout)
TickStart(transport_ok) ==
    /\ tick.pc = "ready"
    /\ call' = [op |-> "process_loop"]
    /\ LET watch_heads == resolve_watch_refs(heads)
           fetched == Remote_fetch(<<>>, transport_ok)
       IN  IF ~fetched.ok \/ config_target_ref \notin DOMAIN heads
           THEN /\ ret' = Err("RemoteUnreachable")
                /\ tick' = [pc |-> "sleeping", watched |-> Empty,
                            target_oid |-> OidUnknown, failed |-> TRUE]
                /\ UNCHANGED notes
           ELSE /\ ret' = Ok(None)
                /\ tick' = [pc |-> "topics",
                            oids |-> [r \in watch_heads |-> heads[r]],
                            watched |-> [r \in watch_heads |-> heads[r]],
                            target_oid |-> heads[config_target_ref],
                            failed |-> FALSE]
                \* Merger::fetch_notes: the forced, pruning fetch of refs/notes/<ns>
                /\ notes' = remote_notes
    /\ pushed' = <<>>
    /\ UNCHANGED <<odb, refs, remote_refs, remote_notes, merge_reference_namer, local_heads, heads,
                 config_refspecs, remote_refspecs>>

\* one turn of the loop over the watched heads: check_and_merge with push;
\* an error is logged and the loop goes on
TickTopic(reference) ==
    /\ tick.pc = "topics"
    /\ reference \in DOMAIN tick.oids
    /\ CheckAndMergeCall(tick.oids[reference], tick.target_oid, reference,
                         config_target_ref, TRUE)
    /\ tick' = IF ret' = Panic THEN [pc |-> "panicked"]
               ELSE [tick EXCEPT !.oids = [r \in DOMAIN tick.oids \ {reference} |->
                                              tick.oids[r]],
                                 !.failed = @ \/ ~ret'.ok]
    /\ UNCHANGED heads

\* the end of process_loop
TickEnd ==
    /\ tick.pc = "topics"
    /\ DOMAIN tick.oids = {}
    /\ tick' = [pc |-> "sleeping", watched |-> tick.watched,
                target_oid |-> tick.target_oid, failed |-> tick.failed]
    /\ UNCHANGED <<odb, refs, notes, remote_refs, remote_notes, merge_reference_namer, local_heads,
                   call, ret, heads, pushed, config_refspecs, remote_refspecs>>

\* a sleep that ends the driver after a tick that failed
Sleep_unless_failed ==
    /\ tick.pc = "sleeping"
    /\ ~tick.failed
    /\ tick' = [pc |-> "ready"]
    /\ UNCHANGED <<odb, refs, notes, remote_refs, remote_notes, merge_reference_namer, local_heads,
                   call, ret, heads, pushed, config_refspecs, remote_refspecs>>

\* std::thread::sleep(interval), and the next turn of the driver's loop
Sleep ==
    /\ tick.pc = "sleeping"
    /\ tick' = [pc |-> "ready"]
    /\ UNCHANGED <<odb, refs, notes, remote_refs, remote_notes, merge_reference_namer, local_heads,
                   call, ret, heads, pushed, config_refspecs, remote_refspecs>>

\* a developer pushes a head of the remote to another commit
RemotePush(head, oid) ==
    /\ tick.pc = "sleeping"
    /\ heads[head] # oid
    /\ heads' = [heads EXCEPT ![head] = oid]
    /\ UNCHANGED <<odb, refs, notes, remote_refs, remote_notes, merge_reference_namer, local_heads,
                   call, ret, tick, pushed, config_refspecs, remote_refspecs>>

NextLoop ==
    \/ \E transport_ok \in BOOLEAN : TickStart(transport_ok)
    \/ \E reference \in watch_refs : TickTopic(reference)
    \/ TickEnd
    \/ Sleep
    \/ \E head \in DOMAIN heads : \E oid \in HeadOids(head) : RemotePush(head, oid)

SpecLoop == Init /\ [][NextLoop]_vars

(***************************************************************************)
(* The loop of process_loop as src/src/main.rs has it: should_merge, merge *)
(* and add_note one by one for every watched head, each with `?`, and one  *)
(* push after the loop.  The calls are those of the Merger of merger.rs:   *)
(* a head is merged when should_merge answers Merge.                       *)
(***************************************************************************)
\* the oids a head can be pushed to, a topic that conflicts with the target
\* among them
MainHeadOids(head) == IF head = config_target_ref THEN TargetOids ELSE TopicOids \cup {OidX}

\* the references of a set, in some order
RefList(rs) ==
    CHOOSE s \in [1..Cardinality(rs) -> rs] : \A r \in rs : \E i \in 1..Cardinality(rs) : s[i] = r

\* one turn of `for (reference, oid) in oids`: the error of merge leaves
\* process_loop with the heads that the loop has not come to
ProcessLoopTopic(reference) ==
    /\ tick.pc = "topics"
    /\ reference \in DOMAIN tick.oids
    /\ call' = [op |-> "process_loop_topic", reference |-> reference,
                oid |-> tick.oids[reference], target_oid |-> tick.target_oid]
    /\ LET oid == tick.oids[reference]
           rest == [r \in DOMAIN tick.oids \ {reference} |-> tick.oids[r]]
           unchanged(result) == Outcome(result, odb, refs, notes, remote_refs, remote_notes)
       IN  \E sm \in should_merge(oid, tick.target_oid, reference, config_target_ref) :
              IF sm = Panic
              THEN /\ Leave(unchanged(Panic))
                   /\ tick' = [pc |-> "panicked"]
              ELSE IF sm.variant # "Merge"
              THEN /\ Leave(unchanged(Ok(None)))
                   /\ tick' = [tick EXCEPT !.oids = rest]
              ELSE \E same_second \in SameSecond(oid, tick.target_oid) :
                   \E merged \in {merge(oid, tick.target_oid, reference, config_target_ref,
                                        same_second)} :
                      IF ~merged.ok
                      THEN /\ Leave(unchanged(merged))
                           /\ tick' = [tick EXCEPT !.pc = "sleeping", !.oids = rest,
                                                   !.failed = TRUE]
                      ELSE /\ Leave(Outcome(Ok(None), merged.odb, merged.refs,
                                            add_note(IF sm.note = None
                                                     THEN new_with_merge(merged.val)
                                                     ELSE append_with_merge(sm.note,
                                                                            merged.val).note,
                                                     oid),
                                            remote_refs, remote_notes))
                           /\ tick' = [tick EXCEPT !.oids = rest]
    /\ UNCHANGED heads

\* the push after the loop, of the notes and of the merge references, and
\* the end of process_loop
ProcessLoopPush(push_ok) ==
    /\ tick.pc = "topics"
    /\ DOMAIN tick.oids = {}
    /\ call' = [op |-> "process_loop_push"]
    /\ LET refspecs == [i \in 1..Cardinality(DOMAIN refs) + 1 |->
                           as_forced(IF i = 1 THEN notes_reference(namespace)
                                     ELSE RefList(DOMAIN refs)[i - 1])]
           result == Remote_push(refspecs, refs, notes, push_ok)
       IN  /\ Leave(Pushing(IF result.ok
                            THEN Outcome(Ok(None), odb, refs, notes, result.val.remote_refs,
                                         result.val.remote_notes)
                            ELSE Outcome(result, odb, refs, notes, remote_refs, remote_notes),
                            refspecs))
           /\ tick' = [tick EXCEPT !.pc = "sleeping", !.failed = ~result.ok]
    /\ UNCHANGED heads

\* a developer pushes a head of the remote to another commit, a conflicting
\* one too
RemotePushAny(head, oid) ==
    /\ tick.pc = "sleeping"
    /\ heads[head] # oid
    /\ heads' = [heads EXCEPT ![head] = oid]
    /\ UNCHANGED <<odb, refs, notes, remote_refs, remote_notes, merge_reference_namer, local_heads,
                   call, ret, tick, pushed, config_refspecs, remote_refspecs>>

NextMain ==
    \/ \E transport_ok \in BOOLEAN : TickStart(transport_ok)
    \/ \E reference \in watch_refs : ProcessLoopTopic(reference)
    \/ \E push_ok \in BOOLEAN : ProcessLoopPush(push_ok)
    \/ Sleep
    \/ \E head \in DOMAIN heads : \E oid \in MainHeadOids(head) : RemotePushAny(head, oid)

SpecMain == Init /\ [][NextMain]_vars

\* the driver of process with its scheduling: thread::sleep returns after
\* the interval, and the loop of process then calls process_loop again; one
\* watched head moves between a commit that merges and one that conflicts
NextRetry ==
    \/ \E transport_ok \in BOOLEAN : TickStart(transport_ok)
    \/ \E reference \in watch_refs : ProcessLoopTopic(reference)
    \/ \E push_ok \in BOOLEAN : ProcessLoopPush(push_ok)
    \/ Sleep
    \/ \E oid \in {OidB, OidX} : RemotePushAny(RefFeature, oid)

SpecRetry ==
    /\ Init
    /\ [][NextRetry]_vars
    /\ WF_vars(Sleep)
    /\ WF_vars(\E transport_ok \in BOOLEAN : TickStart(transport_ok))

(***************************************************************************)
(* The resolution of the target reference against what the remote          *)
(* advertises (git ls-remote): Remote::resolve_target_ref of git.rs,       *)
(* RepositoryConfiguration::resolve_target_ref of lib.rs and the           *)
(* resolve_target_ref of main.rs, which process calls.                     *)
(***************************************************************************)
RefHEAD == <<"HEAD">>

\* a RemoteHead, with the fields that the resolution reads
RemoteHead(name, symref_target) == [name |-> name, symref_target |-> symref_target]

\* Remote::resolve_head
resolve_head(remote_ls) ==
    LET found == {head \in remote_ls : head.name = RefHEAD /\ head.symref_target # None_str}
    IN  IF found = {} THEN None_str ELSE (CHOOSE head \in found : TRUE).symref_target

\* Remote::head
Remote_head(remote_ls, transport_ok) ==
    IF transport_ok THEN Ok(resolve_head(remote_ls)) ELSE Err("RemoteUnreachable")

\* Remote::remote_ls
Remote_remote_ls(remote_ls, transport_ok) ==
    IF transport_ok THEN Ok(remote_ls) ELSE Err("RemoteUnreachable")

\* Remote::resolve_target_ref
Remote_resolve_target_ref(target_ref, remote_ls, transport_ok) ==
    IF target_ref = None_str \/ target_ref = Some(RefHEAD)
    THEN LET head == Remote_head(remote_ls, transport_ok)
         IN  IF ~head.ok THEN head
             ELSE IF head.val = None_str THEN Err("Could not find a default HEAD on remote")
             ELSE Ok(head.val[1])
    ELSE LET listed == Remote_remote_ls(remote_ls, transport_ok)
         IN  IF ~listed.ok THEN listed
             ELSE IF ~\E head \in listed.val : head.name = target_ref[1]
             THEN Err("Could not find reference on remote")
             ELSE Ok(target_ref[1])

\* RepositoryConfiguration::resolve_target_ref
RepositoryConfiguration_resolve_target_ref(target_ref, remote_ls, transport_ok) ==
    IF target_ref # None_str
    THEN LET listed == Remote_remote_ls(remote_ls, transport_ok)
         IN  IF ~listed.ok THEN listed
             ELSE IF ~\E head \in listed.val : head.name = target_ref[1]
             THEN Err("Could not find reference on remote")
             ELSE Ok(target_ref[1])
    ELSE LET head == Remote_head(remote_ls, transport_ok)
         IN  IF ~head.ok THEN head
             ELSE IF head.val = None_str THEN Err("Could not find a default HEAD on remote")
             ELSE Ok(head.val[1])

\* resolve_target_ref of main.rs
main_resolve_target_ref(target_ref, remote_ls, transport_ok) ==
    IF target_ref # None_str
    THEN LET listed == Remote_remote_ls(remote_ls, transport_ok)
         IN  IF ~listed.ok THEN listed
             ELSE IF ~\E head \in listed.val : head.name = target_ref[1]
             THEN Err("Could not find reference on remote")
             ELSE Ok(target_ref[1])
    ELSE LET head == Remote_head(remote_ls, transport_ok)
         IN  IF ~head.ok THEN head
             ELSE IF head.val = None_str THEN Err("Could not find a default HEAD on remote")
             ELSE Ok(head.val[1])

\* what a remote may advertise: nothing, a HEAD that is a symbolic reference
\* to a branch, a HEAD that is none, no HEAD
Advertisements ==
    {{},
     {RemoteHead(RefHEAD, Some(RefMaster)), RemoteHead(RefMaster, None_str)},
     {RemoteHead(RefHEAD, Some(RefMain)), RemoteHead(RefMaster, None_str), RemoteHead(RefMain, None_str)},
     {RemoteHead(RefHEAD, None_str), RemoteHead(RefMaster, None_str)},
     {RemoteHead(RefMaster, None_str), RemoteHead(RefMain, None_str)}}

TargetRefInputs == {None_str, Some(RefHEAD), Some(RefMaster), Some(RefMain), Some(RefFeature)}

ResolveTargetRef(of, target_ref, remote_ls, transport_ok) ==
    /\ call' = [op |-> "resolve_target_ref", of |-> of, target_ref |-> target_ref,
                remote_ls |-> remote_ls, transport_ok |-> transport_ok]
    /\ Leave(Outcome(IF of = "Remote"
                     THEN Remote_resolve_target_ref(target_ref, remote_ls, transport_ok)
                     ELSE IF of = "RepositoryConfiguration"
                     THEN RepositoryConfiguration_resolve_target_ref(target_ref, remote_ls,
                                                                     transport_ok)
                     ELSE main_resolve_target_ref(target_ref, remote_ls, transport_ok),
                     odb, refs, notes, remote_refs, remote_notes))
    /\ UNCHANGED <<heads, tick>>

NextTarget ==
    \E of \in {"Remote", "RepositoryConfiguration", "main"}, target_ref \in TargetRefInputs,
       remote_ls \in Advertisements, transport_ok \in BOOLEAN :
       ResolveTargetRef(of, target_ref, remote_ls, transport_ok)

SpecTarget == Init /\ [][NextTarget]_vars

(***************************************************************************)
(* The refspecs of the remote: the repository's configuration keeps them,  *)
(* and a Remote loads them when Repository::remote finds the remote.       *)
(***************************************************************************)
MaxRefspecs == 6

\* the name of the remote that Repository::remote finds
remote_name == <<<<"origin">>>>

\* the refspec of notes_reference that add_note_refspecs and fetch_notes format
note_refspec(ns) == <<"+">> \o notes_reference(ns) \o <<":">> \o notes_reference(ns)

\* Merger::add_note_refspecs of a Merger of the namespace
AddNoteRefspecs(ns) ==
    /\ call' = [op |-> "add_note_refspecs", namespace |-> ns]
    /\ LET refspec == note_refspec(ns)
           fetch_added == add_refspec(remote_refspecs, config_refspecs, refspec, "Fetch")
       IN  config_refspecs' = add_refspec(remote_refspecs, fetch_added, refspec, "Push")
    /\ Len(config_refspecs') <= MaxRefspecs
    /\ ret' = Ok(None)
    /\ UNCHANGED <<odb, refs, notes, remote_refs, remote_notes, merge_reference_namer, local_heads,
                   heads, tick, pushed, remote_refspecs>>

\* MergeReferenceNamer::add_default_refspecs
AddDefaultRefspecs ==
    /\ call' = [op |-> "add_default_refspecs"]
    /\ LET src == DEFAULT_NERGE_REFERENCE_BASE
           refspec == generate_refspec(remote_name, src, TRUE)
       IN  IF ~refspec.ok
           THEN /\ ret' = refspec
                /\ UNCHANGED config_refspecs
           ELSE /\ ret' = Ok(None)
                /\ config_refspecs' = add_refspec(remote_refspecs, config_refspecs,
                                                  refspec.val, "Push")
    /\ Len(config_refspecs') <= MaxRefspecs
    /\ UNCHANGED <<odb, refs, notes, remote_refs, remote_notes, merge_reference_namer, local_heads,
                   heads, tick, pushed, remote_refspecs>>

\* Repository::remote: the remote is loaded from the configuration
OpenRemote ==
    /\ call' = [op |-> "remote"]
    /\ ret' = Ok(None)
    /\ remote_refspecs' = config_refspecs
    /\ UNCHANGED <<odb, refs, notes, remote_refs, remote_notes, merge_reference_namer, local_heads,
                   heads, tick, pushed, config_refspecs>>

NextRefspecs ==
    \/ \E ns \in {DEFAULT_NOTES_NAMESPACE, "foobar"} : AddNoteRefspecs(ns)
    \/ AddDefaultRefspecs
    \/ OpenRemote

SpecRefspecs == Init /\ [][NextRefspecs]_vars

(***************************************************************************)
(* RefspecStr and Remote::generate_refspec as functions of their           *)
(* arguments: refspec strings and sources of every shape, of the pieces    *)
(* "+", ":", "/", "*" and names.                                           *)
(***************************************************************************)
MaxRefspecLen == 3

RECURSIVE StringsOver(_, _)
StringsOver(alphabet, n) ==
    IF n = 0 THEN {<<>>}
    ELSE LET shorter == StringsOver(alphabet, n - 1)
         IN  shorter \cup {Append(s, c) : s \in shorter, c \in alphabet}

RefspecInputs == StringsOver({"+", ":", "refs", "/"}, MaxRefspecLen)

SrcInputs == StringsOver({"refs", "/", "pulls", "*"}, MaxRefspecLen)

\* the name of a remote: none, or origin
RemoteNames == {<<>>, remote_name}

\* RefspecStr::from_str, and what the RefspecStr then gives
FromStr(refspec) ==
    /\ call' = [op |-> "from_str", refspec |-> refspec]
    /\ LET r == RefspecStr_from_str(refspec)
       IN  Leave(Outcome([force |-> r.force, refspec |-> r.refspec,
                          to_string |-> RefspecStr_to_string(r),
                          src |-> RefspecStr_src(r), dest |-> RefspecStr_dest(r)],
                         odb, refs, notes, remote_refs, remote_notes))
    /\ UNCHANGED <<heads, tick>>

AsForced(refspec) ==
    /\ call' = [op |-> "as_forced", refspec |-> refspec]
    /\ Leave(Outcome(as_forced(refspec), odb, refs, notes, remote_refs, remote_notes))
    /\ UNCHANGED <<heads, tick>>

GenerateRefspec(name, src, force) ==
    /\ call' = [op |-> "generate_refspec", name |-> name, src |-> src, force |-> force]
    /\ Leave(Outcome(generate_refspec(name, src, force),
                     odb, refs, notes, remote_refs, remote_notes))
    /\ UNCHANGED <<heads, tick>>

NextRefspecStr ==
    \/ \E refspec \in RefspecInputs : FromStr(refspec)
    \/ \E refspec \in RefspecInputs : AsForced(refspec)
    \/ \E name \in RemoteNames, src \in SrcInputs, force \in BOOLEAN :
          GenerateRefspec(name, src, force)

SpecRefspecStr == Init /\ [][NextRefspecStr]_vars

(***************************************************************************)
(* find_note on notes whose _version a peer has written: the version of    *)
(* this program, an earlier and a later one.                               *)
(***************************************************************************)
MaxVersion == 2

\* the text of a note of the tests with every version up to MaxVersion, and
\* a text that is no TOML
VersionedTexts ==
    {[serialize_toml(make_note(OidB, OidA, RefMaster)) EXCEPT !._version = v] :
        v \in 0..MaxVersion} \cup {NotToml}

NextVersion ==
    \/ \E oid \in TopicOids \cup {OidX}, text \in VersionedTexts : PeerNote(oid, text)
    \/ \E oid \in TopicOids \cup {OidX} : FindNote(oid)

SpecVersion == Init /\ [][NextVersion]_vars

(***************************************************************************)
(* The driver stopped in the middle of a push: the push of check_and_merge *)
(* names the notes and the merge reference, and the process is killed when *)
(* the remote has taken the merge reference and not yet the notes.  The    *)
(* process is then started again.                                          *)
(***************************************************************************)
KillMidPush(reference) ==
    /\ tick.pc = "topics"
    /\ reference \in DOMAIN tick.oids
    /\ call' = [op |-> "killed", oid |-> tick.oids[reference],
                target_oid |-> tick.target_oid, reference |-> reference,
                target_reference |-> config_target_ref]
    /\ \E sm \in should_merge(tick.oids[reference], tick.target_oid, reference,
                              config_target_ref) :
          /\ sm # Panic
          /\ sm.variant = "Merge"
          /\ \E same_second \in SameSecond(tick.oids[reference], tick.target_oid) :
                \E out \in {check_and_merge(tick.oids[reference], tick.target_oid, reference,
                                            config_target_ref, FALSE, sm, same_second,
                                            TRUE, TRUE)} :
                   /\ out.ret.ok
                   /\ \E merge_reference \in {out.ret.val[1].merge_reference} :
                         Leave([out EXCEPT
                                   !.ret = Err("killed"),
                                   !.remote_refs =
                                       [r \in DOMAIN remote_refs \cup {merge_reference} |->
                                           IF r = merge_reference
                                           THEN out.refs[merge_reference]
                                           ELSE remote_refs[r]]])
    /\ tick' = [pc |-> "ready"]
    /\ UNCHANGED heads

NextRecover ==
    \/ \E transport_ok \in BOOLEAN : TickStart(transport_ok)
    \/ \E reference \in watch_refs : TickTopic(reference)
    \/ \E reference \in watch_refs : KillMidPush(reference)
    \/ TickEnd
    \/ Sleep
    \/ \E oid \in TopicOids : RemotePush(RefFeature, oid)

SpecRecover == Init /\ [][NextRecover]_vars

(***************************************************************************)
(* process and process_loop of src/src/main.rs up to the loop over the     *)
(* watched heads: the remote is loaded, the refspecs of the configuration  *)
(* are added, and every tick lists the remote, fetches the watched heads   *)
(* and the target, and reads their oids from the references of the         *)
(* checkout.                                                               *)
(***************************************************************************)
\* a fetch refspec that mirrors the heads of the remote under their own names
MirrorRefspec == <<"+", "refs", "/", "heads", "/", "*", ":", "refs", "/", "heads", "/", "*">>

\* the fetch_refspecs of a configuration file
FetchRefspecConfigs == {<<>>, <<MirrorRefspec>>}

\* Remote::add_refspecs
RECURSIVE add_refspecs(_, _, _, _)
add_refspecs(loaded, configured, refspecs, direction) ==
    IF refspecs = <<>> THEN configured
    ELSE add_refspecs(loaded, add_refspec(loaded, configured, refspecs[1], direction),
                      Tail(refspecs), direction)

\* process up to its loop: Repository::remote loads the remote, and the
\* refspecs of the notes, of the merge references and of the configuration
\* file are added
Process(fetch_refspecs) ==
    /\ tick.pc \in {"ready", "sleeping"}
    /\ call' = [op |-> "process", fetch_refspecs |-> fetch_refspecs]
    /\ remote_refspecs' = config_refspecs
    /\ LET loaded == config_refspecs
           notes_fetch == add_refspec(loaded, config_refspecs, note_refspec(namespace), "Fetch")
           notes_push == add_refspec(loaded, notes_fetch, note_refspec(namespace), "Push")
           merges == generate_refspec(remote_name, DEFAULT_NERGE_REFERENCE_BASE, TRUE)
           merges_push == add_refspec(loaded, notes_push, merges.val, "Push")
       IN  /\ merges.ok
           /\ config_refspecs' = add_refspecs(loaded, merges_push, fetch_refspecs, "Fetch")
    /\ Len(config_refspecs') <= MaxRefspecs
    /\ ret' = Ok(None)
    /\ tick' = [pc |-> "ready"]
    /\ pushed' = <<>>
    /\ UNCHANGED <<odb, refs, notes, remote_refs, remote_notes, merge_reference_namer,
                   local_heads, heads>>

\* process_loop up to its loop over the watched heads: the oids are those of
\* the references of the checkout that carry the names the remote advertised
ProcessLoopResolve(transport_ok) ==
    /\ tick.pc = "ready"
    /\ call' = [op |-> "process_loop_resolve", remote_ls |-> heads]
    /\ LET remote_ls == heads
           watch_heads == resolve_watch_refs(remote_ls)
           fetched == Remote_fetch(<<>>, transport_ok)
           local == update_tips(local_heads, remote_refspecs, remote_ls,
                                watch_heads \cup {config_target_ref})
           oids == [r \in {w \in watch_heads : w \in DOMAIN local} |-> local[r]]
       IN  IF ~fetched.ok
           THEN /\ ret' = fetched
                /\ tick' = [pc |-> "sleeping", watched |-> Empty,
                            target_oid |-> OidUnknown, failed |-> TRUE]
                /\ UNCHANGED <<notes, local_heads>>
           ELSE IF config_target_ref \notin DOMAIN local
           THEN /\ ret' = Err("NotFound")
                /\ tick' = [pc |-> "sleeping", watched |-> Empty,
                            target_oid |-> OidUnknown, failed |-> TRUE]
                /\ local_heads' = local
                /\ UNCHANGED notes
           ELSE /\ ret' = Ok(None)
                /\ tick' = [pc |-> "topics", oids |-> oids, watched |-> oids,
                            target_oid |-> local[config_target_ref], failed |-> FALSE]
                /\ local_heads' = local
                \* Merger::fetch_notes: the forced, pruning fetch of refs/notes/<ns>
                /\ notes' = remote_notes
    /\ pushed' = <<>>
    /\ UNCHANGED <<odb, refs, remote_refs, remote_notes, merge_reference_namer, heads,
                   config_refspecs, remote_refspecs>>

NextResolve ==
    \/ \E fetch_refspecs \in FetchRefspecConfigs : Process(fetch_refspecs)
    \/ \E transport_ok \in BOOLEAN : ProcessLoopResolve(transport_ok)
    \/ \E reference \in watch_refs : ProcessLoopTopic(reference)
    \/ \E push_ok \in BOOLEAN : ProcessLoopPush(push_ok)
    \/ Sleep
    \/ \E head \in {RefFeature, config_target_ref} : \E oid \in HeadOids(head) : RemotePushAny(head, oid)

SpecResolve == Init /\ [][NextResolve]_vars

(***************************************************************************)
(* The tick of src/src/main.rs against a remote whose heads come and go:   *)
(* developers delete heads and push them again, so that a listing can be   *)
(* empty or name no watched head; and resolve_watch_refs as a function of  *)
(* the watch list and the listing.                                         *)
(***************************************************************************)
\* RemoteHead::flatten
flatten(head) == IF head.symref_target # None_str THEN head.symref_target[1] ELSE head.name

\* RegexSet::is_match for patterns without operators: some pattern occurs in s
is_match(regex_set, s) ==
    \E pattern \in regex_set : \E i \in 1..Len(s) :
       i + Len(pattern) - 1 <= Len(s) /\ SubSeq(s, i, i + Len(pattern) - 1) = pattern

\* WatchReferences::resolve_watch_refs
WatchReferences_resolve_watch_refs(exact_list, regex_set, remote_ls) ==
    LET flattened == {flatten(head) : head \in remote_ls}
    IN  {exact_match \in exact_list : exact_match \in flattened}
           \cup {regex_match \in flattened : is_match(regex_set, regex_match)}

\* the exact names and the patterns of a watch list
ExactLists == SUBSET {RefFeature, RefMain}
RegexSets == {{}, {<<"heads", "/", "m">>}, {<<"refs", "/">>}}

\* the listings of a remote
WatchAdvertisements ==
    Advertisements
       \cup {{RemoteHead(RefHEAD, Some(RefMaster)), RemoteHead(RefMaster, None_str),
              RemoteHead(RefFeature, None_str)}}

ResolveWatchRefs(exact_list, regex_set, remote_ls) ==
    /\ tick.pc = "ready"
    /\ call' = [op |-> "resolve_watch_refs", exact_list |-> exact_list,
                regex_set |-> regex_set, remote_ls |-> remote_ls]
    /\ Leave(Outcome(Ok(WatchReferences_resolve_watch_refs(exact_list, regex_set, remote_ls)),
                     odb, refs, notes, remote_refs, remote_notes))
    /\ UNCHANGED <<heads, tick>>

\* a developer deletes a head of the remote
RemoteDeleteHead(head) ==
    /\ tick.pc = "sleeping"
    /\ head \in DOMAIN heads
    /\ heads' = [h \in DOMAIN heads \ {head} |-> heads[h]]
    /\ UNCHANGED <<odb, refs, notes, remote_refs, remote_notes, merge_reference_namer,
                   local_heads, call, ret, tick, pushed, config_refspecs, remote_refspecs>>

\* a developer pushes a head that the remote does not have
RemoteCreateHead(head, oid) ==
    /\ tick.pc = "sleeping"
    /\ head \notin DOMAIN heads
    /\ heads' = [h \in DOMAIN heads \cup {head} |-> IF h = head THEN oid ELSE heads[h]]
    /\ UNCHANGED <<odb, refs, notes, remote_refs, remote_notes, merge_reference_namer,
                   local_heads, call, ret, tick, pushed, config_refspecs, remote_refspecs>>

NextEmpty ==
    \/ \E transport_ok \in BOOLEAN : ProcessLoopResolve(transport_ok)
    \/ \E push_ok \in BOOLEAN : ProcessLoopPush(push_ok)
    \/ Sleep
    \/ \E head \in watch_refs \cup {config_target_ref} : RemoteDeleteHead(head)
    \/ \E head \in watch_refs \cup {config_target_ref} : \E oid \in HeadOids(head) : RemoteCreateHead(head, oid)
    \/ \E exact_list \in ExactLists, regex_set \in RegexSets, remote_ls \in WatchAdvertisements :
          ResolveWatchRefs(exact_list, regex_set, remote_ls)

SpecEmpty == Init /\ [][NextEmpty]_vars

(***************************************************************************)
(* check_and_merge and should_merge on the notes a caller or a peer wrote: *)
(* the lookup note.merges[target_ref] of check_and_merge meets notes of    *)
(* every shape.                                                            *)
(***************************************************************************)
NextSame ==
    \/ \E note \in NoteInputs : AddNote(note, OidB)
    \/ \E target_oid \in TargetOids, target_reference \in TargetRefs :
          ShouldMerge(OidB, target_oid, RefFeature, target_reference)
    \/ \E target_oid \in TargetOids, target_reference \in TargetRefs :
          CheckAndMerge(OidB, target_oid, RefFeature, target_reference, FALSE)

SpecSame == Init /\ [][NextSame]_vars

(***************************************************************************)
(* check_and_merge with and without its push, on a topic commit and on the *)
(* commit that conflicts with the target.                                  *)
(***************************************************************************)
NextFrame ==
    \/ \E target_oid \in TargetOids, target_reference \in TargetRefs, push \in BOOLEAN :
          CheckAndMerge(OidB, target_oid, RefFeature, target_reference, push)
    \/ \E push \in BOOLEAN : CheckAndMerge(OidX, OidA, RefFeature, config_target_ref, push)

SpecFrame == Init /\ [][NextFrame]_vars

(***************************************************************************)
(* check_and_merge on commits whose note a peer has written: notes of      *)
(* other versions, of another origin, and with an entry under a key that   *)
(* is not its target reference; all of them decode.                        *)
(***************************************************************************)
PeerTexts ==
    VersionedTexts
       \cup {[serialize_toml(make_note(OidB, OidA, RefMaster)) EXCEPT !._note_origin = "peer"],
             serialize_toml(Note_new([k \in {RefMain} |-> make_merge(OidB, OidA, RefMaster)]))}

NextWritten ==
    \/ \E text \in PeerTexts : PeerNote(OidB, text)
    \/ \E target_oid \in TargetOids, target_reference \in TargetRefs :
          CheckAndMerge(OidB, target_oid, RefFeature, target_reference, FALSE)

SpecWritten == Init /\ [][NextWritten]_vars

(***************************************************************************)
(* Properties.                                                             *)
(***************************************************************************)
MergeNone == [variant |-> "Merge", note |-> None]

\* the keys of the entries of a note whose target oid reads as target_oid
Matching(note, target_oid) ==
    {k \in DOMAIN note.merges :
        Oid_from_str(note.merges[k].target_parent_oid) = target_oid}

\* the text that the notes nt hold for an oid decodes, and the note it decodes to
HasNoteIn(nt, oid) == oid \in DOMAIN nt /\ deserialize_toml(nt[oid]).ok

NoteIn(nt, oid) == deserialize_toml(nt[oid]).val

HasNote(oid) == HasNoteIn(notes, oid)

StoredNote(oid) == NoteIn(notes, oid)

\* the merge reference of the namer at the remote is a commit with the two parents
RemoteCarriesMerge(reference, oid, target_oid) ==
    LET merge_reference == resolve(merge_reference_namer, reference, config_target_ref,
                                   oid, target_oid)
    IN  /\ merge_reference \in DOMAIN remote_refs
        /\ remote_refs[merge_reference] \in DOMAIN odb
        /\ {odb[remote_refs[merge_reference]].parents[i] :
               i \in 1..Len(odb[remote_refs[merge_reference]].parents)} = {target_oid, oid}

\* C1: after a tick in which check_and_merge with push succeeded for every
\* watched head, the remote holds, for every watched reference, the merge
\* reference the namer gives it, at a merge commit whose parents are the
\* target head and the head of the reference.
C1_RemoteCarriesEveryMerge ==
    (tick.pc = "sleeping" /\ ~tick.failed) =>
        \A reference \in DOMAIN tick.watched :
            RemoteCarriesMerge(reference, tick.watched[reference], tick.target_oid)

\* a tick ended without an error and a watched reference has no merge
\* reference at the remote
C1_Witness ==
    /\ tick.pc = "sleeping"
    /\ ~tick.failed
    /\ \E reference \in DOMAIN tick.watched :
          resolve(merge_reference_namer, reference, config_target_ref,
                  tick.watched[reference], tick.target_oid) \notin DOMAIN remote_refs

\* what a second call for the merge m of topic_oid into target_oid does
Again(topic_oid, target_oid, reference, target_reference, m) ==
    /\ \A sm \in should_merge(topic_oid, target_oid, reference, target_reference) :
          sm # Panic /\ sm.variant = "ExistingMergeInSameTargetReference"
    /\ \A sm \in should_merge(topic_oid, target_oid, reference, target_reference),
          push \in BOOLEAN, fetch_ok \in BOOLEAN, push_ok \in BOOLEAN :
          LET out == check_and_merge(topic_oid, target_oid, reference, target_reference,
                                     push, sm, FALSE, fetch_ok, push_ok)
          IN  /\ out.odb = odb
              /\ out.ret.ok => out.ret.val[1] = m
              /\ (fetch_ok /\ push_ok) => out.ret.ok

\* C2: once check_and_merge has succeeded, or the note of the Merge that
\* merge returned has been added, should_merge for the same arguments returns
\* ExistingMergeInSameTargetReference, and a second check_and_merge makes no
\* commit and, when its fetch and push go through, returns the same Merge.
C2_Idempotent ==
    /\ (call.op = "check_and_merge" /\ ret.ok) =>
          Again(call.oid, call.target_oid, call.reference, call.target_reference, ret.val[1])
    /\ call.op = "add_note" =>
          \A k \in DOMAIN call.note.merges, reference \in TopicRefs :
              LET m == call.note.merges[k]
                  target_oid == Oid_from_str(m.target_parent_oid)
              IN  resolve(merge_reference_namer, reference, m.target_parent_reference,
                          call.oid, target_oid) = m.merge_reference
                  => Again(call.oid, target_oid, reference, m.target_parent_reference, m)

\* check_and_merge has just merged and returned
C2_Witness ==
    /\ call.op = "check_and_merge"
    /\ ret.ok
    /\ ret.val[2].variant = "Merge"
    /\ Oid_from_str(ret.val[1].merge_oid) \in DOMAIN odb \ DOMAIN BaseCommits

\* C3: should_merge returns Merge(None) for a topic oid that has no note,
\* whatever the target oid and the two references.
C3_NoNoteMerge ==
    /\ (call.op = "should_merge" /\ call.oid \notin DOMAIN notes) => ret = MergeNone
    /\ \A oid \in TopicOids \ DOMAIN notes, target_oid \in TargetOids,
          reference \in TopicRefs, target_reference \in TargetRefs :
          should_merge(oid, target_oid, reference, target_reference) = {MergeNone}

\* should_merge has answered for an oid without a note while another has one
C3_Witness ==
    /\ call.op = "should_merge"
    /\ call.oid \notin DOMAIN notes
    /\ DOMAIN notes # {}
    /\ ret = MergeNone

\* C4: when the note stored for the topic oid has no entry whose target oid
\* parses to the target oid, should_merge returns Merge(Some(n)) with n the
\* stored note, all its entries included.
C4_NoMatchMergeSome ==
    (/\ call.op = "should_merge"
     /\ HasNote(call.oid)
     /\ Matching(StoredNote(call.oid), call.target_oid) = {}) =>
        /\ ret # Panic
        /\ ret.variant = "Merge"
        /\ ret.note # None
        /\ ret.note = StoredNote(call.oid)
        /\ serialize_toml(ret.note) = notes[call.oid]

\* should_merge has returned a stored note none of whose entries matches
C4_Witness ==
    /\ call.op = "should_merge"
    /\ HasNote(call.oid)
    /\ Matching(StoredNote(call.oid), call.target_oid) = {}
    /\ ret.variant = "Merge"
    /\ ret.note # None
    /\ DOMAIN ret.note.merges # {}

\* C5: should_merge returns ExistingMergeInSameTargetReference exactly when
\* the note of the topic oid has an entry under the target reference whose
\* target oid reads as the target oid; and find_matching_merges returns every
\* entry whose target oid reads as the target oid, whatever its key.
C5_SameReferenceExactly ==
    /\ call.op = "should_merge" =>
          ((ret # Panic /\ ret.variant = "ExistingMergeInSameTargetReference")
           <=> (/\ HasNote(call.oid)
                /\ call.target_reference \in DOMAIN StoredNote(call.oid).merges
                /\ Oid_from_str(StoredNote(call.oid).merges[call.target_reference]
                                    .target_parent_oid) = call.target_oid))
    /\ \A oid \in DOMAIN notes, target_oid \in TargetOids :
          HasNote(oid) =>
              find_matching_merges(StoredNote(oid), target_oid)
                  = Matching(StoredNote(oid), target_oid)

\* should_merge has found the merge under the target reference, its target
\* oid written in capital letters
C5_Witness ==
    /\ call.op = "should_merge"
    /\ ret # Panic
    /\ ret.variant = "ExistingMergeInSameTargetReference"
    /\ ret.note.merges[call.target_reference].target_parent_oid
           # format_oid(call.target_oid)

\* C6: when the note of the topic oid has an entry whose target oid reads as
\* the target oid and none of them is under the target reference, should_merge
\* returns ExistingMergeInDifferentTargetReference, and the proposed merge has
\* the merge oid of a matching entry, the target oid, the target reference,
\* the topic oid as its only parent and the merge reference of the namer.
C6_AliasProposed ==
    (/\ call.op = "should_merge"
     /\ HasNote(call.oid)
     /\ Matching(StoredNote(call.oid), call.target_oid) # {}
     /\ call.target_reference \notin Matching(StoredNote(call.oid), call.target_oid)) =>
        /\ ret # Panic
        /\ ret.variant = "ExistingMergeInDifferentTargetReference"
        /\ \E k \in Matching(StoredNote(call.oid), call.target_oid) :
              Oid_from_str(ret.proposed_merge.merge_oid)
                  = Oid_from_str(StoredNote(call.oid).merges[k].merge_oid)
        /\ ret.proposed_merge.target_parent_oid = format_oid(call.target_oid)
        /\ ret.proposed_merge.target_parent_reference = call.target_reference
        /\ ret.proposed_merge.parents_oid = <<format_oid(call.oid)>>
        /\ ret.proposed_merge.merge_reference
               = resolve(merge_reference_namer, call.reference, call.target_reference,
                         call.oid, call.target_oid)

\* should_merge has panicked on a note that decodes
C6_Witness ==
    /\ call.op = "should_merge"
    /\ HasNote(call.oid)
    /\ ret = Panic

\* C7: when should_merge says Merge(note_opt) and the merge succeeds,
\* check_and_merge stores for the topic oid the note note_opt, or a fresh one,
\* with the returned Merge under the target reference and every other entry
\* as it was; the returned Merge names the target oid, the target reference,
\* the topic oid as its only parent and a commit of the object database.
C7_MergeRecorded ==
    (call.op = "check_and_merge" /\ ret.ok /\ ret.val[2].variant = "Merge") =>
        LET m == ret.val[1]
            base == IF ret.val[2].note = None THEN Note_new(Empty) ELSE ret.val[2].note
            stored == find_note(call.oid)
        IN  /\ stored.ok
            /\ DOMAIN stored.val.merges = DOMAIN base.merges \cup {call.target_reference}
            /\ stored.val.merges[call.target_reference] = m
            /\ \A k \in DOMAIN base.merges \ {call.target_reference} :
                  stored.val.merges[k] = base.merges[k]
            /\ stored.val._version = base._version
            /\ stored.val._note_origin = base._note_origin
            /\ m.target_parent_oid = format_oid(call.target_oid)
            /\ m.target_parent_reference = call.target_reference
            /\ m.parents_oid = <<format_oid(call.oid)>>
            /\ Oid_from_str(m.merge_oid) \in DOMAIN odb

\* check_and_merge has merged and added the Merge to a note that had an
\* entry under another target reference
C7_Witness ==
    /\ call.op = "check_and_merge"
    /\ ret.ok
    /\ ret.val[2].variant = "Merge"
    /\ ret.val[2].note # None
    /\ DOMAIN ret.val[2].note.merges \ {call.target_reference} # {}
    /\ HasNote(call.oid)
    /\ Cardinality(DOMAIN StoredNote(call.oid).merges) = 2

\* a successful check_and_merge for refs/heads/master begins in a state where
\* the note of its topic oid records, under refs/heads/master, another target
\* oid than the one of the call
TargetAdvances(target_oid) ==
    /\ call'.op = "check_and_merge"
    /\ call'.target_reference = RefMaster
    /\ ret'.ok
    /\ HasNote(call'.oid)
    /\ RefMaster \in DOMAIN StoredNote(call'.oid).merges
    /\ Oid_from_str(StoredNote(call'.oid).merges[RefMaster].target_parent_oid) = target_oid
    /\ call'.target_oid # target_oid

\* C8, as the claim states it: when the note of B records a merge for
\* refs/heads/master against A and the target moves to A2, check_and_merge
\* makes a new merge commit with the parents A2 and B, the entry under
\* refs/heads/master points at it, and no entry of the note has the target A.
C8_TargetAdvancedAsStated ==
    [][\A target_oid \in TargetOids :
          TargetAdvances(target_oid) =>
              /\ \E c \in DOMAIN odb' \ DOMAIN odb :
                    /\ odb'[c].parents = <<call'.target_oid, call'.oid>>
                    /\ NoteIn(notes', call'.oid).merges[RefMaster].merge_oid = format_oid(c)
              /\ \A k \in DOMAIN NoteIn(notes', call'.oid).merges :
                    Oid_from_str(NoteIn(notes', call'.oid).merges[k].target_parent_oid)
                        # target_oid]_vars

\* C8: when the note of B records a merge for refs/heads/master against A and
\* the target moves to A2, after check_and_merge the entry under
\* refs/heads/master is the returned Merge, records A2 and points at a merge
\* commit with the parents A2 and B; no commit but that one is new, and none
\* at all when the note recorded a merge against A2 under another target
\* reference; the entries under the other target references are as they
\* were, one that records A included.
C8_TargetAdvanced ==
    [][\A target_oid \in TargetOids :
          TargetAdvances(target_oid) =>
              LET before == StoredNote(call'.oid)
                  after == NoteIn(notes', call'.oid)
                  m == after.merges[RefMaster]
                  c == Oid_from_str(m.merge_oid)
              IN  /\ HasNoteIn(notes', call'.oid)
                  /\ m = ret'.val[1]
                  /\ m.target_parent_oid = format_oid(call'.target_oid)
                  /\ c \in DOMAIN odb'
                  /\ odb'[c].parents = <<call'.target_oid, call'.oid>>
                  /\ DOMAIN odb' \ DOMAIN odb \subseteq {c}
                  /\ Matching(before, call'.target_oid) # {} => odb' = odb
                  /\ Matching(before, call'.target_oid) = {} => ret'.val[2].variant = "Merge"
                  /\ DOMAIN after.merges = DOMAIN before.merges
                  /\ \A k \in DOMAIN before.merges \ {RefMaster} :
                        after.merges[k] = before.merges[k]]_vars

\* check_and_merge has merged the topic into the advanced target and
\* replaced the entry under refs/heads/master
C8_Witness ==
    /\ call.op = "check_and_merge"
    /\ call.target_reference = RefMaster
    /\ call.target_oid = OidA2
    /\ ret.ok
    /\ ret.val[2].variant = "Merge"
    /\ ret.val[2].note # None
    /\ RefMaster \in DOMAIN ret.val[2].note.merges
    /\ Oid_from_str(ret.val[2].note.merges[RefMaster].target_parent_oid) = OidA
    /\ StoredNote(call.oid).merges[RefMaster].target_parent_oid = format_oid(OidA2)

\* C9: when check_and_merge finds a merge recorded for the target oid under
\* another target reference, it makes no commit, and afterwards the note has
\* an entry under the target reference of the call with the merge oid of the
\* entry found, which is as it was.
C9_Alias ==
    [][call'.op = "check_and_merge" =>
          \A sm \in should_merge(call'.oid, call'.target_oid, call'.reference,
                                 call'.target_reference) :
              (sm # Panic /\ sm.variant = "ExistingMergeInDifferentTargetReference") =>
                  LET before == StoredNote(call'.oid)
                      after == NoteIn(notes', call'.oid)
                  IN  /\ odb' = odb
                      /\ HasNoteIn(notes', call'.oid)
                      /\ call'.target_reference \in DOMAIN after.merges
                      /\ \A k \in Matching(before, call'.target_oid) :
                            /\ after.merges[k] = before.merges[k]
                            /\ after.merges[call'.target_reference].merge_oid
                                   = before.merges[k].merge_oid]_vars

\* check_and_merge has recorded a merge under a second target reference
C9_Witness ==
    /\ call.op = "check_and_merge"
    /\ ret.ok
    /\ ret.val[2].variant = "ExistingMergeInDifferentTargetReference"
    /\ StoredNote(call.oid).merges[call.target_reference].merge_oid
           = ret.val[2].proposed_merge.merge_oid

\* C10: check_and_merge leaves the note of every oid but its topic oid as it
\* was; and for a topic oid that has no note, should_merge returns
\* Merge(None) and a successful check_and_merge makes and records a merge
\* commit whose parents are the target and the topic.
C10_TopicAdvanced ==
    [][call'.op = "check_and_merge" =>
          /\ DOMAIN notes \ {call'.oid} = DOMAIN notes' \ {call'.oid}
          /\ \A o \in DOMAIN notes \ {call'.oid} : notes'[o] = notes[o]
          /\ call'.oid \notin DOMAIN notes =>
                /\ should_merge(call'.oid, call'.target_oid, call'.reference,
                                call'.target_reference) = {MergeNone}
                /\ ret'.ok =>
                      LET c == Oid_from_str(ret'.val[1].merge_oid)
                      IN  /\ ret'.val[2] = MergeNone
                          /\ c \in DOMAIN odb'
                          /\ odb'[c].parents = <<call'.target_oid, call'.oid>>
                          /\ HasNoteIn(notes', call'.oid)
                          /\ NoteIn(notes', call'.oid) = new_with_merge(ret'.val[1])]_vars

\* check_and_merge has merged the advanced topic B2, which had no note, and
\* the note of B is there
C10_Witness ==
    /\ call.op = "check_and_merge"
    /\ call.oid = OidB2
    /\ ret.ok
    /\ ret.val[2] = MergeNone
    /\ odb[Oid_from_str(ret.val[1].merge_oid)].parents = <<call.target_oid, OidB2>>
    /\ HasNote(OidB)

\* a call of check_and_merge begins
CheckAndMergeStep == call'.op = "check_and_merge"

\* C11: when the note of the topic holds a merge whose target oid reads as
\* the target oid of the call, check_and_merge makes no commit: the object
\* database is as it was.  So a call of check_and_merge that follows a
\* successful one for the same topic oid and target oid, whatever the
\* references, makes no commit either.
C11_NoCommitWhenRecorded ==
    [][CheckAndMergeStep =>
          /\ (HasNote(call'.oid) /\ Matching(StoredNote(call'.oid), call'.target_oid) # {})
                => odb' = odb
          /\ (/\ call.op = "check_and_merge"
              /\ ret.ok
              /\ call.oid = call'.oid
              /\ call.target_oid = call'.target_oid) => odb' = odb]_vars

\* check_and_merge has succeeded for a topic whose note held a merge for the
\* target oid under the other target reference, and the note holds an entry
\* under either target reference now
C11_Witness ==
    /\ call.op = "check_and_merge"
    /\ ret.ok
    /\ ret.val[2].variant = "ExistingMergeInDifferentTargetReference"
    /\ MergeCount(odb) >= 1
    /\ Cardinality(DOMAIN StoredNote(call.oid).merges) = 2

\* the target reference that the message of a merge commit names
MergedInto(commit) ==
    SubSeq(commit.message, FirstIndexOf(commit.message, "into") + 1,
           LastIndexOf(commit.message, "(") - 1)

\* the merge commits of the topic oid into the target reference
MergesOf(db, oid, target_reference) ==
    {o \in DOMAIN db \ DOMAIN BaseCommits :
        db[o].parents[2] = oid /\ MergedInto(db[o]) = target_reference}

\* C12, for a pair whose every earlier merge consumed the target oid of the
\* tick: when the object database holds merge commits of the topic oid into
\* the target reference and every one of them has the target head of the
\* tick for its first parent, the target has not advanced and the tick makes
\* no merge commit for the pair.
C12_RecreatedOnlyWhenAdvanced ==
    [][(tick.pc = "topics" /\ CheckAndMergeStep) =>
          LET earlier == MergesOf(odb, call'.oid, call'.target_reference)
          IN  (earlier # {} /\ \A o \in earlier : odb[o].parents[1] = call'.target_oid)
                  => DOMAIN odb' = DOMAIN odb]_vars

\* a tick has made a merge commit for a pair that had one, against the
\* target head that has advanced since
C12_Witness ==
    /\ tick.pc = "topics"
    /\ call.op = "check_and_merge"
    /\ ret.ok
    /\ ret.val[2].variant = "Merge"
    /\ ret.val[2].note # None
    /\ \E o \in MergesOf(odb, call.oid, call.target_reference) :
          odb[o].parents[1] # call.target_oid
    /\ \E o \in MergesOf(odb, call.oid, call.target_reference) :
          odb[o].parents[1] = call.target_oid

\* C13: the commit that a successful merge returns is in the object
\* database with exactly two parents, the target commit first and the topic
\* commit second, and the reference the namer gives the merge points at it.
C13_ParentsTargetFirst ==
    (call.op = "merge" /\ ret.ok) =>
        LET c == Oid_from_str(ret.val.merge_oid)
        IN  /\ c \in DOMAIN odb
            /\ Len(odb[c].parents) = 2
            /\ odb[c].parents = <<call.target_oid, call.oid>>
            /\ ret.val.merge_reference =
                   resolve(merge_reference_namer, call.reference, call.target_reference,
                           call.oid, call.target_oid)
            /\ ret.val.merge_reference \in DOMAIN refs
            /\ refs[ret.val.merge_reference] = c

\* merge has made the commit of the second topic commit into the advanced target
C13_Witness ==
    /\ call.op = "merge"
    /\ ret.ok
    /\ call.oid = OidB2
    /\ call.target_oid = OidA2
    /\ Oid_from_str(ret.val.merge_oid) \in DOMAIN odb \ DOMAIN BaseCommits

\* the error of a merge whose index is in conflict
ConflictError == Err("Index is in conflict after merge -- skipping")

\* the three-way merge of the two commits yields an entry of a nonzero stage
Conflicting(db, target_oid, oid) ==
    /\ target_oid \in DOMAIN db
    /\ oid \in DOMAIN db
    /\ \E entry \in merge_commits(db, target_oid, oid) : git_index_entry_stage(entry) # 0

\* C14: when the three-way merge of the target commit and the topic commit
\* yields an index entry of a nonzero stage, merge returns the conflict
\* error, and so does a check_and_merge that comes to merge (no stored note
\* holds a merge for the target oid); the call makes no commit, leaves every
\* reference and every note as it was, pushes nothing and leaves the remote
\* as it was.  The state being as it was, the same call fails the same way
\* again.
C14_ConflictLeavesNothing ==
    [][(/\ call'.op \in {"merge", "check_and_merge"}
        /\ Conflicting(odb, call'.target_oid, call'.oid)
        /\ call'.op = "check_and_merge" =>
               ~(HasNote(call'.oid) /\ Matching(StoredNote(call'.oid), call'.target_oid) # {}))
       => /\ ret' = ConflictError
          /\ odb' = odb
          /\ refs' = refs
          /\ notes' = notes
          /\ pushed' = <<>>
          /\ remote_refs' = remote_refs
          /\ remote_notes' = remote_notes]_vars

\* check_and_merge with push has returned the conflict error in a
\* repository that holds merges of another topic commit, pushed to the remote
C14_Witness ==
    /\ call.op = "check_and_merge"
    /\ call.oid = OidX
    /\ call.push
    /\ ret = ConflictError
    /\ DOMAIN refs # {}
    /\ DOMAIN remote_notes # {}

\* a call of merge begins, for two commits of the repository whose merge
\* is free of conflicts, while the reference the namer gives it exists
MergeOverReference ==
    /\ call'.op = "merge"
    /\ call'.oid \in DOMAIN odb
    /\ call'.target_oid \in DOMAIN odb
    /\ ~Conflicting(odb, call'.target_oid, call'.oid)
    /\ resolve(merge_reference_namer, call'.reference, call'.target_reference,
               call'.oid, call'.target_oid) \in DOMAIN refs

\* C15: a merge whose reference exists already succeeds and leaves the
\* reference at the merge commit it has made, the commit that its Merge
\* names, wherever the reference pointed.  That commit is the only object
\* the call can add; when it adds none (the clock still shows the second of
\* the last merge of the two commits) the commit is the latest of the
\* commits of that content.  No other reference is touched.
C15_ForceReplace ==
    [][MergeOverReference =>
          LET commit_reference == resolve(merge_reference_namer, call'.reference,
                                          call'.target_reference, call'.oid, call'.target_oid)
          IN  /\ ret'.ok
              /\ ret'.val.merge_reference = commit_reference
              /\ commit_reference \in DOMAIN refs'
              /\ refs'[commit_reference] = Oid_from_str(ret'.val.merge_oid)
              /\ odb'[refs'[commit_reference]].parents = <<call'.target_oid, call'.oid>>
              /\ DOMAIN odb' \ DOMAIN odb \subseteq {refs'[commit_reference]}
              /\ DOMAIN odb' = DOMAIN odb =>
                     odb[refs'[commit_reference]].time =
                         Cardinality({o \in DOMAIN odb : [odb[o] EXCEPT !.time = 0]
                                        = [odb[refs'[commit_reference]] EXCEPT !.time = 0]}) - 1
              /\ \A r \in DOMAIN refs \ {commit_reference} :
                    r \in DOMAIN refs' /\ refs'[r] = refs[r]]_vars

\* the same merge was called twice and the reference points at the commit
\* of the second call, another than that of the first
C15_Witness ==
    /\ call.op = "merge"
    /\ ret.ok
    /\ refs[ret.val.merge_reference] = Oid_from_str(ret.val.merge_oid)
    /\ odb[refs[ret.val.merge_reference]].time = 1
    /\ \E o \in DOMAIN odb :
          /\ o # refs[ret.val.merge_reference]
          /\ [odb[o] EXCEPT !.time = 1] = odb[refs[ret.val.merge_reference]]

\* the sources of the refspecs of a push, and whether every one is forced
PushedSources(refspecs) ==
    {RefspecStr_src(RefspecStr_from_str(refspecs[i])) : i \in 1..Len(refspecs)}

AllForced(refspecs) ==
    \A i \in 1..Len(refspecs) : RefspecStr_from_str(refspecs[i]).force

\* the merge references a successful check_and_merge has created or aliased
CreatedOrAliased ==
    IF ret.val[2].variant = "ExistingMergeInSameTargetReference" THEN {}
    ELSE {ret.val[1].merge_reference}

\* C16: a check_and_merge that was called with push and has succeeded has
\* pushed exactly once, and the refspecs of that push are forced and name
\* refs/notes/<ns> and every merge reference the call created or aliased:
\* that of the new Merge, or that of the proposed merge of an alias.
C16_OnePushOfNotesAndMerges ==
    (call.op = "check_and_merge" /\ call.push /\ ret.ok) =>
        /\ Len(pushed) = 1
        /\ AllForced(pushed[1])
        /\ PushedSources(pushed[1]) = {notes_reference(namespace)} \cup CreatedOrAliased
        /\ Len(pushed[1]) = Cardinality(PushedSources(pushed[1]))

\* check_and_merge has merged and pushed the notes and the merge reference
C16_Witness ==
    /\ call.op = "check_and_merge"
    /\ call.push
    /\ ret.ok
    /\ ret.val[2].variant = "Merge"
    /\ Len(pushed) = 1
    /\ PushedSources(pushed[1]) = {notes_reference(namespace), ret.val[1].merge_reference}
    /\ remote_refs[ret.val[1].merge_reference] = Oid_from_str(ret.val[1].merge_oid)

\* the reference that a Merge names exists and points at the commit it names
KeptAlive(m) ==
    /\ m.merge_reference \in DOMAIN refs
    /\ refs[m.merge_reference] = Oid_from_str(m.merge_oid)

\* C17: after any number of successful calls of check_and_merge, the
\* reference that a Merge of a stored note names exists, and points at the
\* commit that the Merge names.
C17_MergeReferenceKeepsCommit ==
    \A oid \in DOMAIN notes :
        HasNote(oid) =>
            \A k \in DOMAIN StoredNote(oid).merges : KeptAlive(StoredNote(oid).merges[k])

\* check_and_merge has merged a topic commit into the advanced target, and
\* the one Merge of the note of that commit names the reference of the new
\* merge commit
C17_Witness ==
    /\ call.op = "check_and_merge"
    /\ ret.ok
    /\ ret.val[2].variant = "Merge"
    /\ ret.val[2].note # None
    /\ DOMAIN StoredNote(call.oid).merges = {call.target_reference}
    /\ KeptAlive(StoredNote(call.oid).merges[call.target_reference])
    /\ refs[ret.val[1].merge_reference] \notin DOMAIN BaseCommits

\* C18: should_merge leaves every commit, every reference and every note as
\* it was, at the remote too; the results it can have for the same
\* arguments on the same repository are of one variant, so a call that
\* repeats the last one on an unchanged repository returns the variant that
\* the last one returned.
C18_ShouldMergePure ==
    [][call'.op = "should_merge" =>
          /\ odb' = odb
          /\ refs' = refs
          /\ notes' = notes
          /\ remote_refs' = remote_refs
          /\ remote_notes' = remote_notes
          /\ pushed' = <<>>
          /\ \A a, b \in should_merge(call'.oid, call'.target_oid, call'.reference,
                                      call'.target_reference) \ {Panic} :
                a.variant = b.variant
          /\ (call = call' /\ ret # Panic /\ ret' # Panic) => ret'.variant = ret.variant]_vars

\* should_merge has found the merge under the other target reference, in a
\* repository with notes on two commits
C18_Witness ==
    /\ call.op = "should_merge"
    /\ ret # Panic
    /\ ret.variant = "ExistingMergeInDifferentTargetReference"
    /\ Cardinality(DOMAIN notes) = 2

\* C19: after append_with_merge of a Merge to a note, the note holds the
\* Merge under its target reference and holds under every other key what it
\* held, no key more; the call returns the entry the note held under that
\* target reference, None when it held none.
C19_AppendReplacesKey ==
    call.op = "append_with_merge" =>
        LET before == call.note.merges
            after == ret.note.merges
            key == call.merge.target_parent_reference
        IN  /\ key \in DOMAIN after
            /\ after[key] = call.merge
            /\ DOMAIN after = DOMAIN before \cup {key}
            /\ \A k \in DOMAIN before \ {key} : after[k] = before[k]
            /\ ret.ret = IF key \in DOMAIN before THEN before[key] ELSE None
            /\ ret.note._note_origin = call.note._note_origin
            /\ ret.note._version = call.note._version

\* a Merge has replaced another one under its target reference, in a note
\* that holds a Merge under the other target reference too
C19_Witness ==
    /\ call.op = "append_with_merge"
    /\ ret.ret # None
    /\ ret.ret # call.merge
    /\ Cardinality(DOMAIN ret.note.merges) = 2

InvalidNote(oid) == oid \in DOMAIN notes /\ ~deserialize_toml(notes[oid]).ok

\* C21: a check_and_merge for a topic oid whose stored note does not decode
\* skips the topic: it makes no commit and leaves the stored note as it is.
C21_InvalidNoteSkipsTopic ==
    [][(CheckAndMergeStep /\ InvalidNote(call'.oid)) =>
          /\ odb' = odb
          /\ notes' = notes]_vars

\* check_and_merge was called for an oid whose note does not decode, and
\* the note is as it was
C21_Witness ==
    /\ call.op = "check_and_merge"
    /\ InvalidNote(call.oid)
    /\ MergeCount(odb) >= 1

\* the last of the segments that the slashes of a reference delimit
LastSegment(reference) ==
    CHOOSE s \in {SubSeq(reference, i, Len(reference)) : i \in 1..Len(reference) + 1} :
        /\ \A i \in 1..Len(s) : s[i] # "/"
        /\ Len(s) = Len(reference) \/ reference[Len(reference) - Len(s)] = "/"

\* C22: the default namer gives refs/fusionner/<last segment of the topic
\* reference>/<last segment of the target reference>, whatever the oids, so
\* two topic references of the same last segment get the same merge
\* reference; a custom namer gives what its callback returns for the four
\* arguments.
C22_DefaultNamerLastSegments ==
    call.op = "resolve" =>
        IF call.namer = "Default"
        THEN /\ ret = <<"refs", "/", "fusionner", "/">> \o LastSegment(call.reference)
                          \o <<"/">> \o LastSegment(call.target_reference)
             /\ \A oid \in TopicOids \cup TargetOids, target_oid \in TopicOids \cup TargetOids :
                   resolve("Default", call.reference, call.target_reference, oid, target_oid)
                       = ret
             /\ \A reference \in ReferenceInputs :
                   LastSegment(reference) = LastSegment(call.reference) =>
                       resolve("Default", reference, call.target_reference, call.oid,
                               call.target_oid) = ret
        ELSE ret = custom_namer_callback(call.reference, call.target_reference, call.oid,
                                         call.target_oid)

\* the default namer has named the merge of a topic reference that shares
\* its last segment with another one
C22_Witness ==
    /\ call.op = "resolve"
    /\ call.namer = "Default"
    /\ call.reference = <<"refs", "/", "pull", "/", "feature">>
    /\ call.target_reference = RefMaster
    /\ ret = resolve("Default", RefFeature, RefMaster, OidB, OidA)
    /\ ret = <<"refs", "/", "fusionner", "/", "feature", "/", "master">>

\* C23: a failure in one topic of a tick does not end the tick: when the
\* driver goes to sleep after its loop over the watched heads, no watched
\* head of the tick is left that the loop has not come to.
C23_TopicFailureKeepsTick ==
    (tick.pc = "sleeping" /\ "oids" \in DOMAIN tick) => DOMAIN tick.oids = {}

\* the loop of a tick has met an error of merge, for whatever head
C23_Witness ==
    /\ tick.pc = "sleeping"
    /\ "oids" \in DOMAIN tick
    /\ call.op = "process_loop_topic"
    /\ ~ret.ok

\* C24: a tick that fails with an error does not end the driver: the driver
\* sleeps, the sleep ends, and the next tick starts; a tick starts only
\* when the driver is ready, which it is only after the sleep that follows
\* the end of the tick before.
C24_FailedTickIsRetried ==
    /\ [][/\ (tick'.pc = "topics" /\ tick.pc # "topics") => tick.pc = "ready"
          /\ (tick'.pc = "ready" /\ tick.pc # "ready") => tick.pc = "sleeping"
          /\ (tick'.pc = "sleeping" /\ tick.pc # "sleeping") =>
                \/ tick.pc = "ready" /\ ~ret'.ok
                \/ tick.pc = "topics" /\ call'.op \in {"process_loop_topic",
                                                       "process_loop_push"}]_vars
    /\ (tick.pc = "sleeping" /\ tick.failed) ~> (tick.pc = "ready")
    /\ (tick.pc = "ready") ~> (tick.pc # "ready")

\* the driver has slept after a tick that failed and is about to start the
\* next tick
C24_Witness ==
    /\ tick.pc = "ready"
    /\ ~ret.ok

\* the target of the HEAD that the advertisement has as a symbolic
\* reference, None when it has none
AdvertisedHeadTarget(remote_ls) ==
    IF \E head \in remote_ls : head.name = RefHEAD /\ head.symref_target # None_str
    THEN (CHOOSE head \in remote_ls : head.name = RefHEAD /\ head.symref_target # None_str).symref_target
    ELSE None_str

\* C25: with the remote reachable, resolve_target_ref of no input or of
\* "HEAD" gives the target of the advertised symbolic HEAD, an error when
\* there is none; of any other input it gives the input when a head of that
\* name is advertised, an error when none is.
C25_ResolveTargetRef ==
    (call.op = "resolve_target_ref" /\ call.transport_ok) =>
        IF call.target_ref = None_str \/ call.target_ref = Some(RefHEAD)
        THEN IF AdvertisedHeadTarget(call.remote_ls) = None_str THEN ~ret.ok
             ELSE ret = Ok(AdvertisedHeadTarget(call.remote_ls)[1])
        ELSE IF \E head \in call.remote_ls : head.name = call.target_ref[1]
             THEN ret = Ok(call.target_ref[1])
             ELSE ~ret.ok

\* the resolution of lib.rs was asked for "HEAD" on a remote that advertises
\* a symbolic HEAD
C25_Witness ==
    /\ call.op = "resolve_target_ref"
    /\ call.of = "RepositoryConfiguration"
    /\ call.transport_ok
    /\ call.target_ref = Some(RefHEAD)
    /\ AdvertisedHeadTarget(call.remote_ls) # None_str

\* Remote::resolve_target_ref of git.rs does as C25 says
C25_RemoteResolves ==
    (call.op = "resolve_target_ref" /\ call.of = "Remote") => C25_ResolveTargetRef

\* how many times the configuration holds the refspec in the direction
TimesConfigured(direction, refspec) ==
    Cardinality({i \in 1..Len(config_refspecs) :
                    config_refspecs[i] = Refspec(direction, refspec)})

\* +refs/notes/<ns>:refs/notes/<ns>
NotesRefspecOf(ns) ==
    <<"+", "refs", "/", "notes", "/", ns, ":", "refs", "/", "notes", "/", ns>>

\* C26: after add_note_refspecs, called any number of times on the same
\* Remote or on one loaded anew, the configuration of the remote holds
\* +refs/notes/<ns>:refs/notes/<ns> once as a fetch refspec and once as a
\* push refspec.
C26_NoteRefspecsOnce ==
    call.op = "add_note_refspecs" =>
        /\ TimesConfigured("Fetch", NotesRefspecOf(call.namespace)) = 1
        /\ TimesConfigured("Push", NotesRefspecOf(call.namespace)) = 1

\* add_note_refspecs was called on a remote whose configuration held the
\* refspec already
C26_Witness ==
    /\ call.op = "add_note_refspecs"
    /\ TimesConfigured("Fetch", NotesRefspecOf(call.namespace)) >= 1
    /\ find_matching_refspec(remote_refspecs, "Fetch", NotesRefspecOf(call.namespace))

\* add_note_refspecs on a remote loaded after the refspec was configured
\* adds nothing
C26_LoadedAnewAddsNothing ==
    [][(call'.op = "add_note_refspecs"
          /\ find_matching_refspec(remote_refspecs, "Fetch", NotesRefspecOf(call'.namespace))
          /\ find_matching_refspec(remote_refspecs, "Push", NotesRefspecOf(call'.namespace)))
         => config_refspecs' = config_refspecs]_vars

\* whether the source pattern of a refspec covers the reference: a pattern
\* without '*' covers the reference of that name only, a pattern with '*'
\* every reference that has its text before the '*' at the start and its
\* text after the '*' at the end
Covers(pattern, reference) ==
    LET star == FirstIndexOf(pattern, "*")
        after == Len(pattern) - star
    IN  IF star = 0 THEN pattern = reference
        ELSE /\ Len(reference) >= Len(pattern) - 1
             /\ SubSeq(reference, 1, star - 1) = SubSeq(pattern, 1, star - 1)
             /\ SubSeq(reference, Len(reference) - after + 1, Len(reference))
                    = SubSeq(pattern, star + 1, Len(pattern))

\* the merge references that the default namer gives for the watched
\* references and the targets
DefaultMergeReferences ==
    {resolve("Default", reference, target_reference, OidB, OidA) :
        reference \in watch_refs, target_reference \in TargetRefs}

\* C27: after add_default_refspecs the configuration of the remote holds a
\* forced push refspec whose source covers every merge reference that the
\* default namer gives.
C27_DefaultRefspecCovers ==
    call.op = "add_default_refspecs" =>
        \E i \in 1..Len(config_refspecs) :
            /\ config_refspecs[i].direction = "Push"
            /\ RefspecStr_from_str(config_refspecs[i].str).force
            /\ \A reference \in DefaultMergeReferences :
                  Covers(RefspecStr_src(RefspecStr_from_str(config_refspecs[i].str)),
                         reference)

\* add_default_refspecs has returned Ok and the configuration holds a forced
\* push refspec whose source is refs/fusionner
C27_Witness ==
    /\ call.op = "add_default_refspecs"
    /\ ret.ok
    /\ \E i \in 1..Len(config_refspecs) :
          /\ config_refspecs[i].direction = "Push"
          /\ RefspecStr_from_str(config_refspecs[i].str).force
          /\ RefspecStr_src(RefspecStr_from_str(config_refspecs[i].str))
                = DEFAULT_NERGE_REFERENCE_BASE

\* C28: from_str then to_string gives the refspec string back; from_str
\* takes one leading '+', if there is one, as the force flag and leaves the
\* rest; src is the text before the first ':' and dest the text after it,
\* None when the refspec has no ':'.
C28_RefspecRoundTrip ==
    call.op = "from_str" =>
        /\ ret.to_string = call.refspec
        /\ ret.force = (Len(call.refspec) > 0 /\ Head(call.refspec) = "+")
        /\ ret.refspec = IF ret.force THEN Tail(call.refspec) ELSE call.refspec
        /\ IF \A i \in 1..Len(ret.refspec) : ret.refspec[i] # ":"
           THEN ret.src = ret.refspec /\ ret.dest = <<>>
           ELSE /\ Len(ret.dest) = 1
                /\ ret.refspec = ret.src \o <<":">> \o ret.dest[1]
                /\ \A i \in 1..Len(ret.src) : ret.src[i] # ":"

\* from_str was given a forced refspec with nothing before the ':' and
\* text after it
C28_Witness ==
    /\ call.op = "from_str"
    /\ call.refspec = <<"+", ":", "refs">>
    /\ ret.force
    /\ ret.src = <<>>
    /\ ret.dest = <<<<"refs">>>>

\* C29: as_forced of a forced refspec is that refspec, and the RefspecStr of
\* as_forced(s) has the force flag with the refspec of the RefspecStr of s.
C29_ForcingIdempotent ==
    call.op = "as_forced" =>
        /\ as_forced(ret) = ret
        /\ RefspecStr_from_str(ret).force
        /\ RefspecStr_from_str(ret).refspec = RefspecStr_from_str(call.refspec).refspec

\* as_forced was given a refspec without the flag and has returned another
\* string
C29_Witness ==
    /\ call.op = "as_forced"
    /\ Len(call.refspec) = 3
    /\ call.refspec[1] # "+"
    /\ ret # call.refspec

\* the text refs/remotes/<name>/
RemotesOf(name) == <<"refs", "/", "remotes", "/">> \o name[1] \o <<"/">>

\* C30: generate_refspec(src, force) of a remote named N returns
\* [+]src:refs/remotes/N/<src without its leading refs/ segment>, the '+'
\* there when force is true, and an error when the first segment of src is
\* not refs or when the remote has no name.
C30_GenerateRefspec ==
    call.op = "generate_refspec" =>
        LET first == IF \E i \in 1..Len(call.src) : call.src[i] = "/"
                     THEN SubSeq(call.src, 1,
                                 (CHOOSE i \in 1..Len(call.src) :
                                     /\ call.src[i] = "/"
                                     /\ \A j \in 1..i - 1 : call.src[j] # "/") - 1)
                     ELSE call.src
            rest == SubSeq(call.src, Len(first) + 2, Len(call.src))
        IN  IF first # <<"refs">> \/ call.name = <<>> THEN ~ret.ok
            ELSE ret = Ok((IF call.force THEN <<"+">> ELSE <<>>) \o call.src \o <<":">>
                             \o RemotesOf(call.name) \o rest)

\* generate_refspec has made the forced refspec of refs/pulls for the
\* remote origin
C30_Witness ==
    /\ call.op = "generate_refspec"
    /\ call.src = <<"refs", "/", "pulls">>
    /\ call.force
    /\ ret = Ok(<<"+", "refs", "/", "pulls", ":",
                  "refs", "/", "remotes", "/", "origin", "/", "pulls">>)

\* for a source with a '/' generate_refspec does as C30 says
C30_GenerateRefspecOfPath ==
    (call.op = "generate_refspec" /\ \E i \in 1..Len(call.src) : call.src[i] = "/")
        => C30_GenerateRefspec

\* the oid has a note whose text is a table with a _version that is not
\* NOTE_VERSION
OtherVersion(oid) ==
    /\ oid \in DOMAIN notes
    /\ notes[oid] # NotToml
    /\ "_version" \in DOMAIN notes[oid]
    /\ notes[oid]._version # 1

\* C31: find_note of a stored note whose _version is not 1 returns an
\* error to its caller, and never the note as a valid one.
C31_VersionMismatch ==
    (call.op = "find_note" /\ OtherVersion(call.oid)) => ~ret.ok

\* find_note was called for an oid whose stored note has a _version above 1
C31_Witness ==
    /\ call.op = "find_note"
    /\ OtherVersion(call.oid)
    /\ notes[call.oid]._version > 1

\* C32: in every note that calls of check_and_merge have left, the entries
\* whose target_parent_oid reads as one target oid have one merge_oid, and
\* should_merge has one result whichever of them it picks.
C32_MatchingEntriesAgree ==
    \A oid \in DOMAIN notes :
        HasNote(oid) =>
            /\ \A k1 \in DOMAIN StoredNote(oid).merges, k2 \in DOMAIN StoredNote(oid).merges :
                  (/\ Oid_from_str(StoredNote(oid).merges[k1].target_parent_oid) # OidErr
                   /\ Oid_from_str(StoredNote(oid).merges[k1].target_parent_oid)
                         = Oid_from_str(StoredNote(oid).merges[k2].target_parent_oid))
                      => StoredNote(oid).merges[k1].merge_oid
                            = StoredNote(oid).merges[k2].merge_oid
            /\ \A target_oid \in TargetOids, reference \in TopicRefs,
                  target_reference \in TargetRefs :
                  Cardinality(should_merge(oid, target_oid, reference, target_reference)) = 1

\* check_and_merge has left a note with two entries of one target oid
C32_Witness ==
    /\ call.op = "check_and_merge"
    /\ ret.ok
    /\ HasNote(call.oid)
    /\ \E k1 \in DOMAIN StoredNote(call.oid).merges, k2 \in DOMAIN StoredNote(call.oid).merges :
          /\ k1 # k2
          /\ StoredNote(call.oid).merges[k1].target_parent_oid
                = StoredNote(call.oid).merges[k2].target_parent_oid

\* the remote has the merge reference of the topic reference at a merge of
\* the target oid and the topic oid
PublishedMergeIn(rrefs, db, reference, oid, target_oid) ==
    LET merge_reference == resolve(merge_reference_namer, reference, config_target_ref,
                                   oid, target_oid)
    IN  /\ merge_reference \in DOMAIN rrefs
        /\ rrefs[merge_reference] \in DOMAIN db
        /\ db[rrefs[merge_reference]].parents = <<target_oid, oid>>

PublishedMerge(reference, oid, target_oid) ==
    PublishedMergeIn(remote_refs, odb, reference, oid, target_oid)

\* the notes have a note on the topic oid that records the merge that the
\* references have at the merge reference of the topic reference
Recorded(nt, rf, reference, oid, target_oid) ==
    LET merge_reference == resolve(merge_reference_namer, reference, config_target_ref,
                                   oid, target_oid)
    IN  /\ HasNoteIn(nt, oid)
        /\ merge_reference \in DOMAIN rf
        /\ \E k \in DOMAIN NoteIn(nt, oid).merges :
              /\ NoteIn(nt, oid).merges[k].merge_reference = merge_reference
              /\ NoteIn(nt, oid).merges[k].merge_oid = format_oid(rf[merge_reference])

\* the notes have a note on the topic oid with an entry for the merge
\* reference of the topic reference and the target oid
Mentioned(nt, reference, oid, target_oid) ==
    /\ HasNoteIn(nt, oid)
    /\ \E k \in DOMAIN NoteIn(nt, oid).merges :
          /\ NoteIn(nt, oid).merges[k].merge_reference
                = resolve(merge_reference_namer, reference, config_target_ref, oid, target_oid)
          /\ NoteIn(nt, oid).merges[k].target_parent_oid = format_oid(target_oid)

\* the publish of the merge of the topic was interrupted: the remote has the
\* merge reference and no note that corresponds to it
Interrupted(reference, oid, target_oid) ==
    /\ PublishedMerge(reference, oid, target_oid)
    /\ ~Mentioned(remote_notes, reference, oid, target_oid)

\* C33: when the remote has a merge reference of a topic and no note
\* recording it, the check_and_merge of the next tick for the topic, if it
\* returns without error, has decided to merge again and leaves the remote
\* with the merge reference and a note on the topic oid that records it.
C33_InterruptedPublishRecovers ==
    [][(/\ tick.pc = "topics"
        /\ CheckAndMergeStep
        /\ Interrupted(call'.reference, call'.oid, call'.target_oid)
        /\ ret'.ok)
         => /\ ret'.val[2].variant = "Merge"
            /\ PublishedMergeIn(remote_refs', odb', call'.reference, call'.oid,
                                call'.target_oid)
            /\ Recorded(remote_notes', remote_refs', call'.reference, call'.oid,
                        call'.target_oid)]_vars

\* after a publish was interrupted, the check_and_merge of a later tick has
\* merged the topic again and the remote has the note that records the merge
C33_Witness ==
    /\ tick.pc = "topics"
    /\ call.op = "check_and_merge"
    /\ ret.ok
    /\ ret.val[2].variant = "Merge"
    /\ ret.val[2].note = None
    /\ MergeCount(odb) = 2
    /\ Recorded(remote_notes, remote_refs, call.reference, call.oid, call.target_oid)
    /\ \E o1 \in DOMAIN odb, o2 \in DOMAIN odb :
          o1 # o2 /\ odb[o1].parents = odb[o2].parents /\ Len(odb[o1].parents) = 2

\* what a tick hands to the merger when it reads the advertisement: every
\* watched head that the remote advertised with its advertised oid, and the
\* advertised oid of the target
HandsAdvertised(remote_ls) ==
    /\ tick.target_oid = remote_ls[config_target_ref]
    /\ tick.oids = [r \in resolve_watch_refs(remote_ls) |-> remote_ls[r]]

\* C34: in every tick the topic oids and the target oid handed to the merger
\* are the oids that the remote advertised in the listing of that tick, not
\* oids read from the references of the checkout: a tick that has resolved
\* its references holds every advertised watched head at its advertised oid
\* and the target at its advertised oid.
C34_OidsFromAdvertisement ==
    call.op = "process_loop_resolve" /\ ret.ok => HandsAdvertised(call.remote_ls)

\* a tick that resolved heads which moved since the clone, to their advertised oids
C34_Witness ==
    /\ call.op = "process_loop_resolve"
    /\ ret.ok
    /\ HandsAdvertised(call.remote_ls)
    /\ RefFeature \in DOMAIN tick.oids
    /\ tick.oids[RefFeature] = OidB2
    /\ tick.target_oid = OidA2

\* the oids of C34 when the loaded remote mirrors the heads under their own names
C34_MirroredHeadsResolve ==
    /\ call.op = "process_loop_resolve"
    /\ ret.ok
    /\ find_matching_refspec(remote_refspecs, "Fetch", MirrorRefspec)
    => HandsAdvertised(call.remote_ls)

\* C35: a tick whose listing of the remote is empty, or whose resolved watch
\* set is empty, fails at once: it returns an error and has fetched nothing,
\* written no note and pushed nothing.
C35_EmptyTickFailsFast ==
    [][/\ tick.pc = "ready"
       /\ call'.op = "process_loop_resolve"
       /\ (DOMAIN heads = {} \/ resolve_watch_refs(heads) = {})
       => /\ ~ret'.ok
          /\ tick'.pc = "sleeping"
          /\ local_heads' = local_heads
          /\ notes' = notes
          /\ pushed' = <<>>]_vars

\* a tick that listed no watched head and went on to push
C35_Witness ==
    /\ call.op = "process_loop_push"
    /\ resolve_watch_refs(heads) = {}
    /\ tick.watched = Empty
    /\ pushed # <<>>

\* the part of C35 about the watch set: every name that resolve_watch_refs
\* returns is a flattened name of the listing
C35_WatchSetAdvertised ==
    call.op = "resolve_watch_refs" =>
       ret.val \subseteq {flatten(head) : head \in call.remote_ls}

\* a watch set that a pattern contributed to
C35_WatchSetWitness ==
    /\ call.op = "resolve_watch_refs"
    /\ call.exact_list = {RefFeature}
    /\ ret.val = {RefFeature, RefMaster}

\* the entries of a note whose target oid reads as the target oid and whose
\* merge oid is no oid
MatchingWithoutMergeOid(note, target_oid) ==
    {k \in Matching(note, target_oid) : Oid_from_str(note.merges[k].merge_oid) = OidErr}

\* C36: should_merge never panics: for every stored note that decodes, one
\* with a matching entry whose merge oid is no oid included, it returns
\* Merge, ExistingMergeInSameTargetReference or
\* ExistingMergeInDifferentTargetReference.
C36_ShouldMergeReturns ==
    call.op = "should_merge" =>
        /\ ret # Panic
        /\ ret.variant \in {"Merge", "ExistingMergeInSameTargetReference",
                            "ExistingMergeInDifferentTargetReference"}

\* should_merge has returned for a note with a matching entry whose merge oid
\* is no oid
C36_Witness ==
    /\ call.op = "should_merge"
    /\ HasNote(call.oid)
    /\ MatchingWithoutMergeOid(StoredNote(call.oid), call.target_oid) # {}
    /\ ret # Panic
    /\ ret.variant = "ExistingMergeInSameTargetReference"

\* the part of C36 about target oids that do not parse: a note whose entries
\* all have such a target oid matches nothing, and should_merge answers
\* Merge with the note
C36_UnparsedTargetNotMatching ==
    (/\ call.op = "should_merge"
     /\ HasNote(call.oid)
     /\ \A k \in DOMAIN StoredNote(call.oid).merges :
           Oid_from_str(StoredNote(call.oid).merges[k].target_parent_oid) = OidErr) =>
        ret = [variant |-> "Merge", note |-> StoredNote(call.oid)]

\* should_merge has answered for a note whose target oid does not parse
C36_UnparsedTargetWitness ==
    /\ call.op = "should_merge"
    /\ HasNote(call.oid)
    /\ \E k \in DOMAIN StoredNote(call.oid).merges :
          Oid_from_str(StoredNote(call.oid).merges[k].target_parent_oid) = OidErr
    /\ ret # Panic
    /\ ret.variant = "Merge"

\* the note of an ExistingMergeInSameTargetReference has an entry under the
\* target reference, whose target oid reads as the target oid
SameTargetEntry(note, target_reference, target_oid) ==
    /\ target_reference \in DOMAIN note.merges
    /\ Oid_from_str(note.merges[target_reference].target_parent_oid) = target_oid

\* C37: whenever should_merge returns ExistingMergeInSameTargetReference(note)
\* for a topic oid, a target oid, a reference and a target reference, the
\* note has an entry under the target reference, so that the lookup of
\* check_and_merge finds it, and the Merge that check_and_merge returns is
\* that entry and has the target oid as its target parent oid.
C37_SameTargetLookup ==
    /\ (/\ call.op = "should_merge"
        /\ ret # Panic
        /\ ret.variant = "ExistingMergeInSameTargetReference") =>
           SameTargetEntry(ret.note, call.target_reference, call.target_oid)
    /\ (/\ call.op = "check_and_merge"
        /\ ret.ok
        /\ ret.val[2].variant = "ExistingMergeInSameTargetReference") =>
           /\ SameTargetEntry(ret.val[2].note, call.target_reference, call.target_oid)
           /\ ret.val[1] = ret.val[2].note.merges[call.target_reference]
           /\ Oid_from_str(ret.val[1].target_parent_oid) = call.target_oid

\* check_and_merge has returned the entry of a peer's note whose target oid
\* is written in capital letters
C37_Witness ==
    /\ call.op = "check_and_merge"
    /\ ret.ok
    /\ ret.val[2].variant = "ExistingMergeInSameTargetReference"
    /\ ret.val[1].target_parent_oid = Upper(format_oid(call.target_oid))

\* the errors that should_merge, merge and add_note end check_and_merge with
ErrorsBeforePush ==
    {Panic, Err("CommitLookup"), Err("Index is in conflict after merge -- skipping")}

\* C38: check_and_merge changes the remote through its final push only: a
\* call with push = false leaves the notes and the references of the remote
\* as they were and pushes nothing; a call that returns an error has changed
\* nothing at the remote, and has not pushed at all when the error is that
\* of should_merge or of merge; and a push that succeeds carries the notes
\* as they are after the local write of the call.
C38_RemoteOnlyThroughPush ==
    [][call'.op = "check_and_merge" =>
          /\ (remote_refs' # remote_refs \/ remote_notes' # remote_notes) =>
                call'.push /\ ret'.ok /\ Len(pushed') = 1
          /\ ~call'.push => pushed' = <<>>
          /\ ret' \in ErrorsBeforePush => pushed' = <<>>
          /\ Len(pushed') <= 1
          /\ (ret'.ok /\ pushed' # <<>>) => remote_notes' = notes']_vars

\* a call without push has merged and written its note where the remote has
\* notes of an earlier push
C38_Witness ==
    /\ call.op = "check_and_merge"
    /\ ~call.push
    /\ ret.ok
    /\ ret.val[2].variant = "Merge"
    /\ pushed = <<>>
    /\ DOMAIN remote_notes # {}
    /\ remote_notes # notes

\* a call with push has ended with the error of merge
C38_ErrorWitness ==
    /\ call.op = "check_and_merge"
    /\ call.push
    /\ ret = Err("Index is in conflict after merge -- skipping")
    /\ DOMAIN remote_notes # {}

\* a note as the merger makes it: every entry under its own target
\* reference, the version and the origin those of the merger
WellFormed(note) ==
    /\ \A k \in DOMAIN note.merges : note.merges[k].target_parent_reference = k
    /\ note._version = NOTE_VERSION
    /\ note._note_origin = NOTE_ID

\* check_and_merge has returned after it wrote the note of the topic oid
WroteNote ==
    /\ call.op = "check_and_merge"
    /\ ret.ok
    /\ ret.val[2].variant \in {"Merge", "ExistingMergeInDifferentTargetReference"}

\* C39: in every note that check_and_merge has created or updated, every key
\* of merges maps to a Merge whose target_parent_reference is the key, the
\* _version is 1 and the _note_origin is the identification string.
C39_WrittenNotesWellFormed ==
    WroteNote => HasNote(call.oid) /\ WellFormed(StoredNote(call.oid))

\* check_and_merge has added an entry to the note that a peer wrote
C39_Witness ==
    /\ WroteNote
    /\ ret.val[2].note # None
    /\ WellFormed(StoredNote(call.oid))
    /\ Cardinality(DOMAIN StoredNote(call.oid).merges) = 2

\* C39 for the notes that the merger alone has written: every stored note
\* is as C39 says
C39_OwnNotesWellFormed ==
    \A oid \in DOMAIN notes : HasNote(oid) /\ WellFormed(StoredNote(oid))

====
